---------------------------- MODULE Spec2Model ----------------------------
(***************************************************************************)
(* Model of the cipher detection and solving engine: lib/crypto            *)
(* (normalizeText, calculateIC, friedmanTest, kasiskiExamination,          *)
(* detectCipherType, scoreText, solveCaesar, solveVigenere,                *)
(* solveMonoSubstitution), the crypto worker's analyzeCipher and the       *)
(* backend's /api/rank-decryptions endpoint.                               *)
(*                                                                         *)
(* Representation.  A string is a sequence of character codes (UTF-16 code *)
(* units, here ASCII).  JavaScript numbers that are ratios of small        *)
(* integers are kept exact (the index of coincidence is a pair num/den);   *)
(* confidences are fixed-point integers in millionths, n-gram scores and   *)
(* the chi-squared statistic in thousandths.  Divisions round toward       *)
(* minus infinity where the code divides doubles.                          *)
(***************************************************************************)
EXTENDS Integers, Sequences, FiniteSets, TLC

VARIABLES
    ciphertext,       \* the input text
    pc,               \* the position of the run
    normalized,       \* normalizeText(ciphertext)
    detection,        \* the DetectionResult
    fmapping,         \* the frequency mapping of solveMonoSubstitution
    quadgrams,        \* the table scoreText reads
    caesarResults,    \* what solveCaesar returned
    vigenereResults,  \* what solveVigenere returned
    monoResults,      \* results of solveMonoSubstitution
    climbSt,          \* bestMapping, bestScore, rng and iter of the hill climbing
    results,          \* analyzeCipher: the results of the detected type's solver
    candidatesForLLM, \* analyzeCipher: the deduplicated shortlist
    finalResults,     \* analyzeCipher: the value it returns as results
    posted,           \* the messages the worker has posted, in order
    apiKey,           \* whether the server has an OPENAI_API_KEY
    request,          \* the body of the POST /api/rank-decryptions in flight
    response,         \* what the fetch of the worker settles with
    uniqueResults,    \* analyzeCipher: the candidates that survive deduplication
    invoked,          \* analyzeCipher: the functions it has called, in order
    loaded,           \* whether the module variable quadgrams holds a table
    loaders,          \* the scoreText calls: their loadQuadgrams and its value
    fetches,          \* how many times /quadgrams.json has been fetched
    served,           \* the table the server holds at /quadgrams.json
    lastKeyLengths,   \* the keyLengths argument of the last solveVigenere call
    calls             \* concurrent solveMonoSubstitution calls: their locals

textVars == <<normalized, detection, fmapping>>

solveVars == <<quadgrams, caesarResults, vigenereResults, monoResults, climbSt>>

workerVars ==
    <<results, candidatesForLLM, finalResults, posted, apiKey, request, response>>

extraVars ==
    <<uniqueResults, invoked, loaded, loaders, fetches, served, lastKeyLengths, calls>>

vars == <<ciphertext, pc, textVars, solveVars, workerVars, extraVars>>

(***************************************************************************)
(* Bounds of the model.                                                    *)
(***************************************************************************)
MaxTextLen == 3

MaxSolveLen == 3

MaxRankings == 4

MaxWorkerLen == 2

(***************************************************************************)
(* Generic helpers.                                                        *)
(***************************************************************************)
Min(a, b) == IF a <= b THEN a ELSE b

Max(a, b) == IF a >= b THEN a ELSE b

Take(s, k) == SubSeq(s, 1, Min(k, Len(s)))

\* the sequence s with its elements evaluated
Tuple(s) == SubSeq(s, 1, Len(s))

Range(s) == {s[i] : i \in 1..Len(s)}

Count(s, c) == Cardinality({i \in 1..Len(s) : s[i] = c})

RECURSIVE IsSubsequence(_, _)
IsSubsequence(a, b) ==
    IF a = <<>> THEN TRUE
    ELSE IF b = <<>> THEN FALSE
    ELSE IF Head(a) = Head(b) THEN IsSubsequence(Tail(a), Tail(b))
    ELSE IsSubsequence(a, Tail(b))

\* Array.prototype.sort((a, b) => b.key - a.key) on pairs <<key, item>>:
\* descending by key, stable (equal keys keep their order).
InsertDesc(t, x) ==
    LET p == Cardinality({i \in 1..Len(t) : t[i][1] >= x[1]})
    IN  SubSeq(t, 1, p) \o <<x>> \o SubSeq(t, p + 1, Len(t))

RECURSIVE SortDesc(_)
SortDesc(s) ==
    IF s = <<>> THEN <<>>
    ELSE InsertDesc(SortDesc(SubSeq(s, 1, Len(s) - 1)), s[Len(s)])

Items(pairs) == [i \in 1..Len(pairs) |-> pairs[i][2]]

(***************************************************************************)
(* normalizeText                                                           *)
(***************************************************************************)
IsAZMutant(c) == c >= 65 /\ c <= 91

\* the characters the regular expression /[^A-Z]/g leaves in place
IsAZ(c) == c >= 65 /\ c <= 90

IsLetter(c) == (c >= 65 /\ c <= 90) \/ (c >= 97 /\ c <= 122)

\* String.prototype.toUpperCase on ASCII
toUpperCase(s) ==
    [i \in 1..Len(s) |-> IF s[i] >= 97 /\ s[i] <= 122 THEN s[i] - 32 ELSE s[i]]

\* text.replace(/[^A-Z]/g, '').toUpperCase()
normalizeText(text) == toUpperCase(SelectSeq(text, IsAZ))

(***************************************************************************)
(* calculateIC: the exact ratio num/den (0/1 when n <= 1).                 *)
(***************************************************************************)
Letters == 65..90

RECURSIVE SumOver(_, _)
SumOver(f, S) ==
    IF S = {} THEN 0
    ELSE LET x == CHOOSE y \in S : TRUE IN f[x] + SumOver(f, S \ {x})

\* an index of coincidence over n * n pairs
calculateICMutant(text) ==
    LET t == normalizeText(text)
        n == Len(t)
        sum == SumOver([c \in Range(t) |-> Count(t, c) * (Count(t, c) - 1)], Range(t))
    IN  IF n <= 1 THEN [num |-> 0, den |-> 1]
        ELSE [num |-> sum, den |-> n * n]

calculateIC(text) ==
    LET t == normalizeText(text)
        n == Len(t)
        freq == [c \in Range(t) |-> Count(t, c)]
        sum == SumOver([c \in Range(t) |-> freq[c] * (freq[c] - 1)], Range(t))
    IN  IF n <= 1 THEN [num |-> 0, den |-> 1]
        ELSE [num |-> sum, den |-> n * (n - 1)]

\* a ratio in millionths
Micro(r) == (r.num * 1000000) \div r.den

(***************************************************************************)
(* friedmanTest                                                            *)
(***************************************************************************)
\* Math.round of the positive ratio a/b
RoundRatio(a, b) == (2 * a + b) \div (2 * b)

RECURSIVE AppendMissing(_, _)
AppendMissing(cands, ks) ==
    IF ks = <<>> THEN cands
    ELSE AppendMissing(IF Head(ks) \in Range(cands) THEN cands
                       ELSE Append(cands, Head(ks)), Tail(ks))

InKeyRange(k) == k >= 2 /\ k <= 20

friedmanTest(text) ==
    LET t == normalizeText(text)
        ic == calculateIC(t)
        \* ic - kr = d / (10000 * den), kp - kr = 282 / 10000
        d == 10000 * ic.num - 385 * ic.den
        base == RoundRatio(282 * ic.den, d)
        lo == Max(2, base - 3)
        hi == Min(20, base + 3)
        window == [i \in 1..(IF hi >= lo THEN hi - lo + 1 ELSE 0) |-> lo + i - 1]
        cands == IF base < 5 THEN AppendMissing(window, <<2, 3, 4, 5, 6>>)
                 ELSE window
    IN  IF d <= 0 THEN <<>>
        ELSE Take(SelectSeq(cands, InKeyRange), 8)

(***************************************************************************)
(* kasiskiExamination and detectRepeatingPatterns                          *)
(***************************************************************************)
Trigram(t, i) == SubSeq(t, i, i + 2)

\* all pairs of positions (i < j) holding the same 3-gram
RepeatPairs(t) ==
    {p \in (1..(Len(t) - 2)) \X (1..(Len(t) - 2)) :
        p[1] < p[2] /\ Trigram(t, p[1]) = Trigram(t, p[2])}

factorCount(t, factor) ==
    Cardinality({p \in RepeatPairs(t) :
        factor <= p[2] - p[1] /\ (p[2] - p[1]) % factor = 0})

\* Object.entries of an object with integer keys lists them in ascending
\* order; the sort by count is stable.
kasiskiExamination(text) ==
    LET t == normalizeText(text)
        present == SelectSeq([i \in 1..19 |-> <<factorCount(t, i + 1), i + 1>>],
                             LAMBDA e : e[1] > 0)
    IN  Items(Take(SortDesc(present), 5))

patternCount(text) ==
    LET t == normalizeText(text)
    IN  Cardinality({i \in 1..(Len(t) - 2) :
            /\ \A h \in 1..(i - 1) : Trigram(t, h) # Trigram(t, i)
            /\ \E j \in (i + 1)..(Len(t) - 2) : Trigram(t, j) = Trigram(t, i)})

(***************************************************************************)
(* calculateCharacterDistribution: chi-squared in thousandths.             *)
(***************************************************************************)
\* englishFreq, in thousandths, for A..Z
englishFreq ==
    <<82, 15, 28, 43, 127, 22, 20, 61, 70, 2, 8, 40, 24,
      67, 75, 19, 1, 60, 63, 91, 28, 10, 23, 1, 20, 1>>

RECURSIVE SumSeq(_)
SumSeq(s) == IF s = <<>> THEN 0 ELSE Head(s) + SumSeq(Tail(s))

\* one letter's term (observed - expected)^2 / expected, with
\* expected = f * n / 1000
chiTerm(observed, f, n) ==
    IF f * n > 0
    THEN ((1000 * observed - f * n) * (1000 * observed - f * n)) \div (f * n)
    ELSE 0

calculateCharacterDistribution(text) ==
    LET t == normalizeText(text)
    IN  SumSeq([i \in 1..26 |-> chiTerm(Count(t, 64 + i), englishFreq[i], Len(t))])

(***************************************************************************)
(* detectCipherType                                                        *)
(***************************************************************************)
\* keyLengthCounts: Friedman proposals weigh 2, Kasiski proposals 3
keyLengthWeight(fr, ka, k) ==
    (IF k \in Range(fr) THEN 2 ELSE 0) + (IF k \in Range(ka) THEN 3 ELSE 0)

\* the merged lengths in the order of Object.entries, without the sort
mergeKeyLengthsMutant(fr, ka) ==
    LET present == SelectSeq([i \in 1..19 |-> <<keyLengthWeight(fr, ka, i + 1), i + 1>>],
                             LAMBDA e : e[1] > 0)
    IN  Take(Items(present), 8)

\* Object.entries(keyLengthCounts).sort(by count, descending).slice(0, 8)
mergeKeyLengths(fr, ka) ==
    LET present == SelectSeq([i \in 1..19 |-> <<keyLengthWeight(fr, ka, i + 1), i + 1>>],
                             LAMBDA e : e[1] > 0)
    IN  Take(Items(SortDesc(present)), 8)

\* ic >= x / 1000, exactly
IcAtLeast(ic, x) == 1000 * ic.num >= x * ic.den

\* the six branches with their caps replaced by a floor at 0
classifyMutant(ic, chi, pcount, allKeyLengths) ==
    LET icm == Micro(ic)
    IN  IF IcAtLeast(ic, 63) /\ chi < 60000 /\ pcount <= 3
        THEN [likelyType |-> "caesar",
              confidence |-> Max(0, (icm - 50000) * 18
                                          + ((60000 - chi) * 1000) \div 120)]
        ELSE IF IcAtLeast(ic, 38) /\ 1000 * ic.num <= 52 * ic.den
                /\ pcount >= 3 /\ Len(allKeyLengths) > 0
        THEN [likelyType |-> "vigenere",
              confidence |-> Max(0, (70000 - icm) * 12 + (pcount * 1000000) \div 8)]
        ELSE IF IcAtLeast(ic, 55) /\ ~IcAtLeast(ic, 63) /\ chi > 40000
        THEN [likelyType |-> "mono",
              confidence |-> Max(0, (icm - 40000) * 10
                                          + Min((chi * 1000) \div 120, 250000))]
        ELSE IF IcAtLeast(ic, 63) /\ chi >= 60000
        THEN [likelyType |-> "mono",
              confidence |-> Max(0, (icm - 40000) * 8)]
        ELSE IF IcAtLeast(ic, 55)
        THEN [likelyType |-> IF IcAtLeast(ic, 63) THEN "caesar" ELSE "mono",
              confidence |-> Max(0, icm * 10)]
        ELSE [likelyType |-> "vigenere",
              confidence |-> Max(0, (70000 - icm) * 12)]

\* the six branches of detectCipherType, confidences in millionths
classify(ic, chi, pcount, allKeyLengths) ==
    LET icm == Micro(ic)
    IN  IF IcAtLeast(ic, 63) /\ chi < 60000 /\ pcount <= 3
        THEN [likelyType |-> "caesar",
              confidence |-> Min(950000, (icm - 50000) * 18
                                          + ((60000 - chi) * 1000) \div 120)]
        ELSE IF IcAtLeast(ic, 38) /\ 1000 * ic.num <= 52 * ic.den
                /\ pcount >= 3 /\ Len(allKeyLengths) > 0
        THEN [likelyType |-> "vigenere",
              confidence |-> Min(950000, (70000 - icm) * 12 + (pcount * 1000000) \div 8)]
        ELSE IF IcAtLeast(ic, 55) /\ ~IcAtLeast(ic, 63) /\ chi > 40000
        THEN [likelyType |-> "mono",
              confidence |-> Min(950000, (icm - 40000) * 10
                                          + Min((chi * 1000) \div 120, 250000))]
        ELSE IF IcAtLeast(ic, 63) /\ chi >= 60000
        THEN [likelyType |-> "mono",
              confidence |-> Min(850000, (icm - 40000) * 8)]
        ELSE IF IcAtLeast(ic, 55)
        THEN [likelyType |-> IF IcAtLeast(ic, 63) THEN "caesar" ELSE "mono",
              confidence |-> Min(750000, icm * 10)]
        ELSE [likelyType |-> "vigenere",
              confidence |-> Min(750000, (70000 - icm) * 12)]

detectCipherType(text) ==
    LET ic == calculateIC(text)
        allKeyLengths == mergeKeyLengths(friedmanTest(text), kasiskiExamination(text))
        c == classify(ic, calculateCharacterDistribution(text),
                      patternCount(text), allKeyLengths)
    IN  [likelyType |-> c.likelyType,
         ic |-> ic,
         keyLengths |-> IF Len(allKeyLengths) > 0 THEN allKeyLengths
                        ELSE <<2, 3, 4, 5, 6>>,
         confidence |-> c.confidence]

(***************************************************************************)
(* Objects used as maps ({ [key: string]: string }): a sequence of         *)
(* <<key, value>> pairs in insertion order, which is the order of          *)
(* Object.keys.  Undefined stands for the value undefined and, as a key,   *)
(* for the property name an undefined index turns into.                    *)
(***************************************************************************)
Undefined == 0

HasKey(m, k) == \E i \in 1..Len(m) : m[i][1] = k

mappingGet(m, k) ==
    IF HasKey(m, k) THEN m[CHOOSE i \in 1..Len(m) : m[i][1] = k][2]
    ELSE Undefined

mappingSet(m, k, v) ==
    IF HasKey(m, k)
    THEN [i \in 1..Len(m) |-> IF m[i][1] = k THEN <<k, v>> ELSE m[i]]
    ELSE Append(m, <<k, v>>)

Keys(m) == [i \in 1..Len(m) |-> m[i][1]]

Values(m) == [i \in 1..Len(m) |-> m[i][2]]

\* array[i] with a zero-based index; out of range reads undefined
At(arr, i) == IF i >= 0 /\ i < Len(arr) THEN arr[i + 1] ELSE Undefined

(***************************************************************************)
(* solveMonoSubstitution, method 1: the frequency mapping.                 *)
(***************************************************************************)
\* 'ETAOINSHRDLCUMWFGYPBVKJXQZ'
englishFreqOrder ==
    <<69, 84, 65, 79, 73, 78, 83, 72, 82, 68, 76, 67, 85,
      77, 87, 70, 71, 89, 80, 66, 86, 75, 74, 88, 81, 90>>

\* englishFreqOrder[i] || 'Z'
orderOrZ(i) == IF At(englishFreqOrder, i) = Undefined THEN 90
               ELSE At(englishFreqOrder, i)

\* the letters of t in order of first occurrence (the key order of cipherFreq)
FirstOccurrences(t) ==
    SelectSeq([i \in 1..Len(t) |->
                  IF \A h \in 1..(i - 1) : t[h] # t[i] THEN t[i] ELSE Undefined],
              LAMBDA c : c # Undefined)

\* cipherFreq[char] = count / totalChars * 100, kept as the numerator
\* count * 100 over the common denominator totalChars
cipherFreq(t, c) == Count(t, c) * 100

cipherFreqSorted(t) ==
    LET ks == FirstOccurrences(t)
    IN  Items(SortDesc([i \in 1..Len(ks) |-> <<cipherFreq(t, ks[i]), ks[i]>>]))

rankMapping(t) ==
    LET sorted == cipherFreqSorted(t)
    IN  [i \in 1..Min(26, Len(sorted)) |-> <<sorted[i], orderOrZ(i - 1)>>]

skipUsedMutant(used, englishIndex) == englishIndex

\* while (usedChars.has(englishFreqOrder[englishIndex]) && englishIndex < 26)
RECURSIVE skipUsed(_, _)
skipUsed(used, englishIndex) ==
    IF At(englishFreqOrder, englishIndex) \in used /\ englishIndex < 26
    THEN skipUsed(used, englishIndex + 1)
    ELSE englishIndex

RECURSIVE fillRemaining(_, _, _, _)
fillRemaining(m, used, i, englishIndex) ==
    IF i >= 26 THEN m
    ELSE IF mappingGet(m, 65 + i) = Undefined
    THEN LET e == skipUsed(used, englishIndex)
         IN  fillRemaining(mappingSet(m, 65 + i, orderOrZ(e)), used, i + 1, e + 1)
    ELSE fillRemaining(m, used, i + 1, englishIndex)

frequencyMapping(t) ==
    LET m == rankMapping(t)
    IN  fillRemaining(m, Range(Values(m)), 0, 0)

\* mapping[char] || char, letter by letter
applyMapping(m, t) ==
    Tuple([i \in 1..Len(t) |-> IF mappingGet(m, t[i]) = Undefined THEN t[i]
                               ELSE mappingGet(m, t[i])])

(***************************************************************************)
(* scoreText.  Scores are in thousandths.  A quadgram table is a function  *)
(* from 4-letter strings to log-probabilities (thousandths); the empty     *)
(* function is the {} that loadQuadgrams returns when the fetch fails.     *)
(***************************************************************************)
EmptyTable == [q \in {} |-> 0]

\* quadgramData[quad] || -12
quadValue(Q, quad) ==
    IF quad \in DOMAIN Q /\ Q[quad] # 0 THEN Q[quad] ELSE -12000

scoreText(text, Q) ==
    LET t == normalizeText(text)
        n == Len(t)
    IN  IF n < 4 THEN -999999000
        ELSE SumSeq([i \in 1..(n - 3) |-> quadValue(Q, SubSeq(t, i, i + 3))])
                 \div Max(1, n - 3)

\* Math.max(0.01, Math.min(0.99, x / divisor + adj)) in millionths, for x in
\* thousandths and adj in millionths with |adj| <= 0.1 (the quotient alone
\* decides outside +-16)
clampConfidence(x, divisor, adj) ==
    IF x < -16000 THEN 10000
    ELSE IF x > 16000 THEN 990000
    ELSE Max(10000, Min(990000, (x * 1000) \div divisor + adj))

\* ic > 0.060 ? (ic - 0.060) * factor : 0, in thousandths
icBonus(ic, factor) ==
    IF 1000 * ic.num > 60 * ic.den THEN ((Micro(ic) - 60000) * factor) \div 1000
    ELSE 0

(***************************************************************************)
(* solveCaesar                                                             *)
(***************************************************************************)
shiftLetterMutant(c, shift) == ((c - 65 + shift) % 26) + 65

\* String.fromCharCode((char.charCodeAt(0) - 65 - shift + 26) % 26 + 65)
shiftLetter(c, shift) == ((c - 65 - shift + 26) % 26) + 65

caesarDecrypt(t, shift) == Tuple([i \in 1..Len(t) |-> shiftLetter(t[i], shift)])

caesarCandidate(t, shift, Q) ==
    LET plaintext == caesarDecrypt(t, shift)
        ngramScore == scoreText(plaintext, Q)
        chiSquared == calculateCharacterDistribution(plaintext)
        chiPenalty == IF chiSquared > 30000 THEN (chiSquared - 30000) \div 100 ELSE 0
        combinedScore == ngramScore + icBonus(calculateIC(plaintext), 10) - chiPenalty
        base == clampConfidence(combinedScore + 10000, 6, 0)
        c13 == IF shift = 13 THEN Min(990000, base + 50000) ELSE base
        conf == IF shift = 1 \/ shift = 25 THEN Min(990000, c13 + 30000) ELSE c13
    IN  [type |-> "caesar", shift |-> <<shift>>, key |-> <<>>, mapping |-> <<>>,
         plaintext |-> plaintext, confidence |-> conf, ngramScore |-> combinedScore]

\* the first k results in the order they were pushed
topByScoreMutant(list, k) == Take(list, k)

\* results.sort((a, b) => b.ngramScore - a.ngramScore).slice(0, k)
topByScore(list, k) ==
    Take(Items(SortDesc([i \in 1..Len(list) |-> <<list[i].ngramScore, list[i]>>])), k)

solveCaesar(text, Q) ==
    LET t == normalizeText(text)
    IN  topByScore(Tuple([i \in 1..26 |-> caesarCandidate(t, i - 1, Q)]), 10)

(***************************************************************************)
(* solveVigenere                                                           *)
(***************************************************************************)
\* columns[i % keyLen] += normalized[i]
column(t, keyLen, col) ==
    SelectSeq([i \in 1..Len(t) |-> IF (i - 1) % keyLen = col THEN t[i] ELSE Undefined],
              LAMBDA c : c # Undefined)

columnScore(col, shift, Q) ==
    LET d == caesarDecrypt(col, shift)
    IN  scoreText(d, Q) + icBonus(calculateIC(d), 5)

\* the loop over the 26 shifts: <<bestShift, bestScore>>, replaced only by a
\* strictly greater score
RECURSIVE bestShiftFrom(_, _, _, _)
bestShiftFrom(col, shift, best, Q) ==
    IF shift >= 26 THEN best
    ELSE LET c == columnScore(col, shift, Q)
         IN  bestShiftFrom(col, shift + 1,
                           IF c > best[2] THEN <<shift, c>> ELSE best, Q)

solveColumn(col, Q) ==
    IF Len(col) = 0 THEN <<0, -999000>>
    ELSE bestShiftFrom(col, 0, <<0, -999999000>>, Q)

\* the mean sum / k of the column scores, computed limb-wise so that the
\* sum of several -999999 sentinels stays within 32-bit integers
meanOf(xs) ==
    LET k == Len(xs)
    IN  SumSeq([i \in 1..k |-> xs[i] \div k]) + SumSeq([i \in 1..k |-> xs[i] % k]) \div k

\* keyLengths.indexOf(keyLen), zero-based, -1 when absent
indexOf(arr, x) ==
    IF x \in Range(arr) THEN (CHOOSE i \in 1..Len(arr) :
                                 arr[i] = x /\ \A h \in 1..(i - 1) : arr[h] # x) - 1
    ELSE -1

vigenereDecrypt(t, key) ==
    Tuple([i \in 1..Len(t) |-> shiftLetter(t[i], key[((i - 1) % Len(key)) + 1])])

vigenereCandidate(t, keyLen, keyLengths, Q) ==
    LET solved == Tuple([c \in 1..keyLen |-> solveColumn(column(t, keyLen, c - 1), Q)])
        key == Tuple([c \in 1..keyLen |-> solved[c][1]])
        plaintext == vigenereDecrypt(t, key)
        finalScore == scoreText(plaintext, Q)
        avgColumnScore == meanOf([c \in 1..keyLen |-> solved[c][2]])
        \* avgColumnScore * 0.3
        combinedScore == finalScore + icBonus(calculateIC(plaintext), 8)
                           + (avgColumnScore \div 10) * 3
        base == clampConfidence(combinedScore + 10000, 8, 0)
        conf == IF indexOf(keyLengths, keyLen) <= 2 THEN Min(990000, base + 50000)
                ELSE base
    IN  [type |-> "vigenere", shift |-> <<>>,
         key |-> [c \in 1..keyLen |-> key[c] + 65], mapping |-> <<>>,
         plaintext |-> plaintext, confidence |-> conf, ngramScore |-> combinedScore]

\* the first 8 key lengths in 2..20, whatever the length of the text
sortedKeyLengthsMutant(t, keyLengths) ==
    Take(SelectSeq(keyLengths, LAMBDA k : k >= 2 /\ k <= 20), 8)

\* keyLengths.filter(k => k >= 2 && k <= Math.min(20, n / 3)).slice(0, 8)
sortedKeyLengths(t, keyLengths) ==
    Take(SelectSeq(keyLengths,
                   LAMBDA k : k >= 2 /\ k <= 20 /\ 3 * k <= Len(t)), 8)

solveVigenere(text, keyLengths, Q) ==
    LET t == normalizeText(text)
        ks == sortedKeyLengths(t, keyLengths)
    IN  topByScore(Tuple([i \in 1..Len(ks) |->
                             vigenereCandidate(t, ks[i], keyLengths, Q)]), 8)

(***************************************************************************)
(* SeededRandom.  The seed is a JavaScript number; the model keeps it as   *)
(* sign and magnitude, the magnitude in two 16-bit limbs (hi * 65536 +     *)
(* lo), so that no intermediate value leaves the 32-bit integers of TLC.   *)
(* The % of JavaScript takes the sign of the dividend, so a                *)
(* negative seed stays negative until seed * 1664525 + 1013904223 >= 0.    *)
(***************************************************************************)
\* new SeededRandom(v) for an integer v
seedOf(v) ==
    LET mag == IF v < 0 THEN 0 - v ELSE v
    IN  [neg |-> v < 0, hi |-> mag \div 65536, lo |-> mag % 65536]

\* (mag * 1664525) mod 2^32, with 1664525 = 25 * 65536 + 26125
mulA(s) ==
    LET low == s.lo * 26125
        mid == (s.hi * 26125 + s.lo * 25) % 65536
    IN  [hi |-> (mid + low \div 65536) % 65536, lo |-> low % 65536]

\* (x + 1013904223) mod 2^32, with 1013904223 = 15470 * 65536 + 62303
addC(x) ==
    [hi |-> (x.hi + 15470 + (x.lo + 62303) \div 65536) % 65536,
     lo |-> (x.lo + 62303) % 65536]

\* (x - 1013904223) mod 2^32
subC(x) ==
    [hi |-> (x.hi - 15470 - (IF x.lo < 62303 THEN 1 ELSE 0)) % 65536,
     lo |-> (x.lo - 62303) % 65536]

\* this.seed = (this.seed * 1664525 + 1013904223) % 4294967296
rngNext(s) ==
    IF ~s.neg
    THEN LET r == addC(mulA(s)) IN [neg |-> FALSE, hi |-> r.hi, lo |-> r.lo]
    ELSE IF s.hi = 0 /\ s.lo <= 609
    THEN \* 1013904223 - mag * 1664525 >= 0 and below 2^32
         seedOf(1013904223 - s.lo * 1664525)
    ELSE LET r == subC(mulA(s))
         IN  [neg |-> r.hi # 0 \/ r.lo # 0, hi |-> r.hi, lo |-> r.lo]


\* Math.floor(this.seed / 4294967296 * max) for the seed s just computed
rngFloor(s, max) ==
    LET low == s.lo * max
        q == (s.hi * max + low \div 65536) \div 65536
        exact == (s.hi * max + low \div 65536) % 65536 = 0 /\ low % 65536 = 0
    IN  IF ~s.neg THEN q
        ELSE IF exact THEN 0 - q
        ELSE 0 - (q + 1)

(***************************************************************************)
(* solveMonoSubstitution                                                   *)
(***************************************************************************)
maxIterations == 50

monoCandidate(m, plaintext, score, adj) ==
    [type |-> "mono", shift |-> <<>>, key |-> <<>>, mapping |-> m,
     plaintext |-> plaintext, confidence |-> clampConfidence(score + 8000, 5, adj),
     ngramScore |-> score]

\* (ic1 > 0.060 ? 0.1 : 0) - (chi1 > 30 ? 0.1 : 0), in millionths
frequencyAdjust(plaintext) ==
    LET ic == calculateIC(plaintext)
    IN  (IF 1000 * ic.num > 60 * ic.den THEN 100000 ELSE 0)
          - (IF calculateCharacterDistribution(plaintext) > 30000 THEN 100000 ELSE 0)

\* method 1
frequencyCandidate(t, Q) ==
    LET m == frequencyMapping(t)
        plaintext1 == applyMapping(m, t)
    IN  monoCandidate(m, plaintext1, scoreText(plaintext1, Q), frequencyAdjust(plaintext1))

\* method 2: the pattern mapping is a copy of the frequency mapping
patternCandidates(t, Q) ==
    LET patternMapping == frequencyMapping(t)
        plaintext2 == applyMapping(patternMapping, t)
        score1 == scoreText(applyMapping(frequencyMapping(t), t), Q)
        score2 == scoreText(plaintext2, Q)
    IN  IF Len(t) > 10 /\ score2 > score1
        THEN <<monoCandidate(patternMapping, plaintext2, score2, 0)>>
        ELSE <<>>

\* the state of the hill climbing loop before its first iteration
climbInit(t, Q) ==
    LET score1 == scoreText(applyMapping(frequencyMapping(t), t), Q)
    IN  [bestMapping |-> frequencyMapping(t), bestScore |-> score1,
         rng |-> seedOf(Len(t) + score1), iter |-> 0]

\* mapping[chars[i]] <-> mapping[chars[j]]
swapEntries(m, i, j) ==
    LET chars == Keys(m)
        ci == At(chars, i)
        cj == At(chars, j)
        temp == mappingGet(m, ci)
        m1 == mappingSet(m, ci, mappingGet(m, cj))
    IN  mappingSet(m1, cj, temp)

\* one iteration of a loop that also takes a swap of equal score
climbStepMutant(st, t, Q) ==
    LET n == Len(Keys(st.bestMapping))
        s1 == rngNext(st.rng)
        s2 == rngNext(s1)
        i == rngFloor(s1, n)
        j == rngFloor(s2, n)
        mapping == swapEntries(st.bestMapping, i, j)
        testScore == scoreText(applyMapping(mapping, t), Q)
    IN  IF n < 2 THEN [st EXCEPT !.iter = st.iter + 1]
        ELSE IF i = j THEN [st EXCEPT !.rng = s2, !.iter = st.iter + 1]
        ELSE IF testScore >= st.bestScore
        THEN [bestMapping |-> mapping, bestScore |-> testScore,
              rng |-> s2, iter |-> st.iter + 1]
        ELSE [st EXCEPT !.rng = s2, !.iter = st.iter + 1]

\* one iteration of the loop
climbStep(st, t, Q) ==
    LET n == Len(Keys(st.bestMapping))
        s1 == rngNext(st.rng)
        s2 == rngNext(s1)
        i == rngFloor(s1, n)
        j == rngFloor(s2, n)
        mapping == swapEntries(st.bestMapping, i, j)
        testScore == scoreText(applyMapping(mapping, t), Q)
    IN  IF n < 2 THEN [st EXCEPT !.iter = st.iter + 1]
        ELSE IF i = j THEN [st EXCEPT !.rng = s2, !.iter = st.iter + 1]
        ELSE IF testScore > st.bestScore
        THEN [bestMapping |-> mapping, bestScore |-> testScore,
              rng |-> s2, iter |-> st.iter + 1]
        ELSE [st EXCEPT !.rng = s2, !.iter = st.iter + 1]

RECURSIVE climb(_, _, _)
climb(st, t, Q) ==
    IF st.iter >= maxIterations THEN st ELSE climb(climbStep(st, t, Q), t, Q)

\* method 3, after the loop: bestScore > score1 + 0.5
optimizedCandidates(st, t, Q) ==
    LET score1 == scoreText(applyMapping(frequencyMapping(t), t), Q)
    IN  IF st.bestScore > score1 + 500
        THEN <<monoCandidate(st.bestMapping, applyMapping(st.bestMapping, t),
                             st.bestScore, 0)>>
        ELSE <<>>

solveMonoSubstitution(text, Q) ==
    LET t == normalizeText(text)
        climbed == IF Len(t) > 20 THEN optimizedCandidates(climb(climbInit(t, Q), t, Q), t, Q)
                   ELSE <<>>
    IN  topByScore(<<frequencyCandidate(t, Q)>> \o patternCandidates(t, Q) \o climbed, 5)

(***************************************************************************)
(* Specification SpecText: the synchronous functions applied to an input   *)
(* text, one after the other.                                              *)
(***************************************************************************)
\* "WKDW LV D VHFUHW PHVVDJH"
SampleCiphertext ==
    <<87, 75, 68, 87, 32, 76, 86, 32, 68, 32, 86, 72, 70, 85, 72, 87,
      32, 80, 72, 86, 86, 68, 74, 72>>

\* 'A', 'B', 'Z', 'a', ' ', '1', '['
TextAlphabet == {65, 66, 90, 97, 32, 49, 91}

RECURSIVE StringsUpTo(_, _)
StringsUpTo(S, n) ==
    IF n = 0 THEN {<<>>}
    ELSE LET shorter == StringsUpTo(S, n - 1)
         IN  shorter \cup {Append(s, c) : s \in shorter, c \in S}

\* "THE QUICK BROWN FOX JUMPS OVER THE LAZY DOG"
Pangram ==
    <<84, 72, 69, 32, 81, 85, 73, 67, 75, 32, 66, 82, 79, 87, 78, 32, 70, 79,
      88, 32, 74, 85, 77, 80, 83, 32, 79, 86, 69, 82, 32, 84, 72, 69, 32, 76,
      65, 90, 89, 32, 68, 79, 71>>

\* "ABCABC...A", 40 letters
PeriodicText == [i \in 1..40 |-> 65 + ((i - 1) % 3)]

\* 40 letters with ABC at distances 12 and 24 and an index of coincidence of
\* 66/1560: the Friedman test proposes 4..10 and the Kasiski examination
\* 2, 3, 4, 6, 12
ManyLengthsText ==
    <<65, 66, 67, 80, 69, 71, 70, 78, 69, 73, 82, 75, 65, 66, 67, 68, 69, 71, 81, 73,
      73, 68, 72, 75, 65, 66, 67, 74, 72, 74, 74, 75, 71, 68, 70, 76, 77, 79, 70, 72>>

\* "IYCOFDVCMHIYCOZKLWQNKYCOFRLEEN": an index of coincidence of 36/870 and
\* three repeated 3-grams (the Vigenere branch of detectCipherType)
VigenereLikeText ==
    <<73, 89, 67, 79, 70, 68, 86, 67, 77, 72, 73, 89, 67, 79, 90, 75, 76, 87, 81, 78,
      75, 89, 67, 79, 70, 82, 76, 69, 69, 78>>

\* "YBGYVFPPJYKXZQJPJZYBZZXKWFVQGK": an index of coincidence of 54/870 and
\* rare letters only (the first mono branch)
ScrambledText ==
    <<89, 66, 71, 89, 86, 70, 80, 80, 74, 89, 75, 88, 90, 81, 74, 80, 74, 90, 89, 66,
      90, 90, 88, 75, 87, 70, 86, 81, 71, 75>>

\* "HTYNHHYNSTDSSIFATPIELTBEUCAHYI": an index of coincidence of 48/870 and
\* common letters (the fallback branch for 0.055 and more)
EnglishLikeText ==
    <<72, 84, 89, 78, 72, 72, 89, 78, 83, 84, 68, 83, 83, 73, 70, 65, 84, 80, 73, 69,
      76, 84, 66, 69, 85, 67, 65, 72, 89, 73>>

TextInputs ==
    StringsUpTo(TextAlphabet, MaxTextLen)
        \cup {SampleCiphertext, Pangram, PeriodicText, ManyLengthsText,
              VigenereLikeText, ScrambledText, EnglishLikeText}

NoDetection ==
    [likelyType |-> "none", ic |-> [num |-> 0, den |-> 1],
     keyLengths |-> <<>>, confidence |-> 0]

NoClimb ==
    [bestMapping |-> <<>>, bestScore |-> 0, rng |-> seedOf(0), iter |-> 0]

\* the values of a JavaScript variable that holds a list, a number or nothing
List(items) == [tag |-> "list", items |-> items]

NotAList == [tag |-> "number", value |-> 5]

Nothing == [tag |-> "undefined"]

\* no analysis is running
WorkerIdle ==
    /\ uniqueResults = <<>>
    /\ invoked = <<>>
    /\ loaded = FALSE
    /\ loaders = <<>>
    /\ fetches = 0
    /\ calls = <<>>
    /\ served = EmptyTable
    /\ lastKeyLengths = <<>>
    /\ results = <<>>
    /\ candidatesForLLM = <<>>
    /\ finalResults = Nothing
    /\ posted = <<>>
    /\ apiKey = FALSE
    /\ request = Nothing
    /\ response = Nothing

InitText ==
    /\ ciphertext \in TextInputs
    /\ pc = "start"
    /\ normalized = <<>>
    /\ detection = NoDetection
    /\ fmapping = <<>>
    /\ quadgrams = EmptyTable
    /\ caesarResults = <<>>
    /\ vigenereResults = <<>>
    /\ monoResults = <<>>
    /\ climbSt = NoClimb
    /\ WorkerIdle

Normalize ==
    /\ pc = "start"
    /\ normalized' = normalizeText(ciphertext)
    /\ pc' = "normalized"
    /\ UNCHANGED <<ciphertext, detection, fmapping, solveVars, workerVars, extraVars>>

Detect ==
    /\ pc = "normalized"
    /\ detection' = detectCipherType(ciphertext)
    /\ pc' = "detected"
    /\ UNCHANGED <<ciphertext, normalized, fmapping, solveVars, workerVars, extraVars>>

BuildFrequencyMapping ==
    /\ pc = "detected"
    /\ fmapping' = frequencyMapping(normalized)
    /\ pc' = "mapped"
    /\ UNCHANGED <<ciphertext, normalized, detection, solveVars, workerVars,
                   extraVars>>

NextText == Normalize \/ Detect \/ BuildFrequencyMapping

SpecText == InitText /\ [][NextText]_vars

(***************************************************************************)
(* Properties of normalizeText, detectCipherType and the frequency mapping *)
(* (specification SpecText).                                               *)
(***************************************************************************)
\* the ASCII letters of t, lowercase as well as uppercase, uppercased
LettersUppercased(t) == toUpperCase(SelectSeq(t, IsLetter))

\* C1: normalizeText(t) is the sequence of all ASCII letters of t, lowercase
\* as well as uppercase, each uppercased, in their original order.
C1_AllLettersUppercased ==
    pc # "start" => normalized = LettersUppercased(ciphertext)

\* C2: every character of normalizeText(t) is in A..Z, and the output is a
\* subsequence of the letters of t (in the same relative order).
C2_OnlyUppercaseInOrder ==
    pc # "start" =>
        /\ \A i \in 1..Len(normalized) : normalized[i] \in Letters
        /\ IsSubsequence(normalized, LettersUppercased(ciphertext))

\* a text with a non-letter between two letters has been normalized
C2_Witness ==
    /\ pc = "normalized"
    /\ Len(normalized) >= 2
    /\ \E i \in 2..(Len(ciphertext) - 1) :
          /\ ~IsLetter(ciphertext[i])
          /\ IsAZ(ciphertext[i - 1])
          /\ IsAZ(ciphertext[i + 1])

\* C3: detectCipherType("WKDW LV D VHFUHW PHVVDJH") returns likelyType caesar
\* and an index of coincidence of at least 0.063.
C3_SampleIsCaesar ==
    (pc \in {"detected", "mapped"} /\ ciphertext = SampleCiphertext) =>
        /\ detection.likelyType = "caesar"
        /\ IcAtLeast(detection.ic, 63)

\* position of an English letter in ETAOINSHRDLCUMWFGYPBVKJXQZ
englishRank(e) == CHOOSE i \in 1..26 : englishFreqOrder[i] = e

\* C10: the frequency mapping is a total bijection on A..Z; the i-th most
\* frequent cipher letter maps to the i-th letter of ETAOINSHRDLCUMWFGYPBVKJXQZ
\* and the absent cipher letters, in alphabetical order, get the first English
\* letters in that order not yet used.
C10_FrequencyMappingBijection ==
    pc = "mapped" =>
        LET present == Range(normalized)
            k == Cardinality(present)
            img(c) == mappingGet(fmapping, c)
        IN  /\ Len(fmapping) = 26
            /\ Range(Keys(fmapping)) = Letters
            /\ Range(Values(fmapping)) = Letters
            /\ {img(c) : c \in present} = {englishFreqOrder[i] : i \in 1..k}
            /\ \A a \in present, b \in present :
                  Count(normalized, a) > Count(normalized, b) =>
                      englishRank(img(a)) < englishRank(img(b))
            /\ \A a \in Letters \ present, b \in Letters \ present :
                  a < b => englishRank(img(a)) < englishRank(img(b))

\* a text with two distinct letters of different counts has been mapped
C10_Witness ==
    /\ pc = "mapped"
    /\ \E a \in Range(normalized), b \in Range(normalized) :
          Count(normalized, a) > Count(normalized, b)
    /\ Cardinality(Range(normalized)) < 26


(***************************************************************************)
(* Specification SpecSolve: the three solvers on one ciphertext with one   *)
(* quadgram table, solveMonoSubstitution one await at a time.              *)
(***************************************************************************)
\* a few entries of an English quadgram table (log10 probabilities):
\* THAT, MESS, SAGE, SECR, CRET, ESSA, TION, THER
EnglishTable ==
    [q \in {<<84, 72, 65, 84>>, <<77, 69, 83, 83>>, <<83, 65, 71, 69>>,
            <<83, 69, 67, 82>>, <<67, 82, 69, 84>>, <<69, 83, 83, 65>>,
            <<84, 73, 79, 78>>, <<84, 72, 69, 82>>} |->
        IF q = <<84, 72, 65, 84>> \/ q = <<84, 73, 79, 78>> THEN -2500 ELSE -3500]

\* ETAE, TAET, AETA at -0.625; NTAN, TANT, ANTA at -0.1
NearZeroTable ==
    [q \in {<<69, 84, 65, 69>>, <<84, 65, 69, 84>>, <<65, 69, 84, 65>>,
            <<78, 84, 65, 78>>, <<84, 65, 78, 84>>, <<65, 78, 84, 65>>} |->
        IF q[1] = 78 \/ q[2] = 78 \/ q[3] = 78 THEN -100 ELSE -625]

\* ETAE, TAET, AETA at -1016.75
SteepTable ==
    [q \in {<<69, 84, 65, 69>>, <<84, 65, 69, 84>>, <<65, 69, 84, 65>>} |-> -1016750]

\* "UVIKBQUP" and 22 times "X": THAT moved on by 1 in the even places and
\* TION moved on by 2 in the odd places (the key BC), 30 letters in all
TwoColumnText ==
    <<85, 86, 73, 75, 66, 81, 85, 80>> \o [i \in 1..22 |-> 88]

SolveInputs ==
    {<<SampleCiphertext, EmptyTable>>, <<SampleCiphertext, EnglishTable>>,
     <<TwoColumnText, EnglishTable>>,
     <<PeriodicText, EmptyTable>>, <<PeriodicText, NearZeroTable>>,
     <<PeriodicText, SteepTable>>}
      \cup {<<t, EmptyTable>> : t \in StringsUpTo({65, 66, 97}, MaxSolveLen)}

\* the key lengths the worker passes at line 83
AllKeyLengths == <<2, 3, 4, 5, 6, 7, 8, 9, 10, 11, 12>>

InitSolve ==
    /\ \E in \in SolveInputs : ciphertext = in[1] /\ quadgrams = in[2]
    /\ pc = "start"
    /\ normalized = <<>>
    /\ detection = NoDetection
    /\ fmapping = <<>>
    /\ caesarResults = <<>>
    /\ vigenereResults = <<>>
    /\ monoResults = <<>>
    /\ climbSt = NoClimb
    /\ WorkerIdle

SolveCaesar ==
    /\ pc = "start"
    /\ caesarResults' = solveCaesar(ciphertext, quadgrams)
    /\ pc' = "caesarDone"
    /\ UNCHANGED <<ciphertext, textVars, quadgrams, vigenereResults, monoResults, climbSt, workerVars,
                   extraVars>>

SolveVigenere ==
    /\ pc = "caesarDone"
    /\ \E kl \in {AllKeyLengths, detectCipherType(ciphertext).keyLengths} :
          /\ vigenereResults' = solveVigenere(ciphertext, kl, quadgrams)
          /\ lastKeyLengths' = kl
    /\ pc' = "vigenereDone"
    /\ UNCHANGED <<ciphertext, textVars, quadgrams, caesarResults, monoResults, climbSt, workerVars,
                   uniqueResults,
                   invoked, loaded, loaders, fetches, served, calls>>

\* solveMonoSubstitution up to the first result (method 1)
MonoFrequency ==
    /\ pc = "vigenereDone"
    /\ normalized' = normalizeText(ciphertext)
    /\ fmapping' = frequencyMapping(normalizeText(ciphertext))
    /\ monoResults' = <<frequencyCandidate(normalizeText(ciphertext), quadgrams)>>
    /\ pc' = "pattern"
    /\ UNCHANGED <<ciphertext, detection, quadgrams, caesarResults, vigenereResults, climbSt,
                   workerVars, extraVars>>

\* method 2, and the set-up of method 3
MonoPattern ==
    /\ pc = "pattern"
    /\ monoResults' = monoResults \o patternCandidates(normalized, quadgrams)
    /\ IF Len(normalized) > 20
       THEN climbSt' = climbInit(normalized, quadgrams) /\ pc' = "climb"
       ELSE climbSt' = climbSt /\ pc' = "sort"
    /\ UNCHANGED <<ciphertext, textVars, quadgrams, caesarResults, vigenereResults, workerVars,
                   extraVars>>

ClimbIterate ==
    /\ pc = "climb"
    /\ climbSt.iter < maxIterations
    /\ climbSt' = climbStep(climbSt, normalized, quadgrams)
    /\ UNCHANGED <<ciphertext, pc, textVars, quadgrams, caesarResults,
                   vigenereResults, monoResults, workerVars, extraVars>>

ClimbFinish ==
    /\ pc = "climb"
    /\ climbSt.iter >= maxIterations
    /\ monoResults' = monoResults \o optimizedCandidates(climbSt, normalized, quadgrams)
    /\ pc' = "sort"
    /\ UNCHANGED <<ciphertext, textVars, quadgrams, caesarResults, vigenereResults, climbSt, workerVars,
                   extraVars>>

MonoReturn ==
    /\ pc = "sort"
    /\ monoResults' = topByScore(monoResults, 5)
    /\ pc' = "done"
    /\ UNCHANGED <<ciphertext, textVars, quadgrams, caesarResults, vigenereResults, climbSt, workerVars,
                   extraVars>>

NextSolve ==
    \/ SolveCaesar
    \/ SolveVigenere
    \/ MonoFrequency
    \/ MonoPattern
    \/ ClimbIterate
    \/ ClimbFinish
    \/ MonoReturn

SpecSolve == InitSolve /\ [][NextSolve]_vars

(***************************************************************************)
(* Properties of the solvers (specification SpecSolve).                    *)
(***************************************************************************)
\* "THATISASECRETMESSAGE"
SamplePlaintext ==
    <<84, 72, 65, 84, 73, 83, 65, 83, 69, 67, 82, 69, 84, 77, 69, 83, 83, 65,
      71, 69>>

\* C4: solveCaesar("WKDW LV D VHFUHW PHVVDJH") returns as its first candidate
\* the one with shift 3 and plaintext "THATISASECRETMESSAGE".
C4_SampleShiftThreeFirst ==
    (pc # "start" /\ ciphertext = SampleCiphertext) =>
        /\ Len(caesarResults) >= 1
        /\ caesarResults[1].shift = <<3>>
        /\ caesarResults[1].plaintext = SamplePlaintext

\* solveCaesar has returned its ten candidates for the sample, scored with
\* the English table
C4_Witness ==
    /\ pc = "caesarDone"
    /\ ciphertext = SampleCiphertext
    /\ quadgrams = EnglishTable
    /\ Len(caesarResults) = 10

\* keys exactly the 26 letters, values a bijection onto the 26 letters
IsPermutationOfAZ(m) ==
    /\ Len(m) = 26
    /\ Range(Keys(m)) = Letters
    /\ Range(Values(m)) = Letters

\* C9: every mono candidate returned by solveMonoSubstitution carries a
\* mapping that is a permutation of A..Z, after any sequence of
\* hill-climbing swaps.
C9_MappingsArePermutations ==
    pc = "done" =>
        \A i \in 1..Len(monoResults) : IsPermutationOfAZ(monoResults[i].mapping)


(***************************************************************************)
(* analyzeCipher of the worker and POST /api/rank-decryptions of the       *)
(* server.                                                                 *)
(***************************************************************************)
\* String.prototype.trim
IsSpace(c) == c \in {9, 10, 11, 12, 13, 32}

RECURSIVE trimStart(_)
trimStart(s) == IF s # <<>> /\ IsSpace(Head(s)) THEN trimStart(Tail(s)) ELSE s

RECURSIVE trimEnd(_)
trimEnd(s) ==
    IF s # <<>> /\ IsSpace(s[Len(s)]) THEN trimEnd(SubSeq(s, 1, Len(s) - 1)) ELSE s

trim(s) == trimEnd(trimStart(s))

\* result.plaintext.substring(0, 100).toUpperCase().trim()
dedupeKey(result) == trim(toUpperCase(Take(result.plaintext, 100)))

\* the pool without the outputs of the three solvers run for every text
allResultsMutant(detected, caesar, vigenere, mono) == detected

\* [...results, ...caesarResults, ...vigenereResults, ...monoResults]
allResults(detected, caesar, vigenere, mono) ==
    detected \o caesar \o vigenere \o mono

\* a loop that pushes every result
RECURSIVE dedupeMutant(_, _, _)
dedupeMutant(all, seenPlaintexts, unique) ==
    IF all = <<>> THEN unique
    ELSE dedupeMutant(Tail(all), seenPlaintexts, Append(unique, Head(all)))

\* the loop over allResults with seenPlaintexts and uniqueResults
RECURSIVE dedupe(_, _, _)
dedupe(all, seenPlaintexts, unique) ==
    IF all = <<>> THEN unique
    ELSE LET result == Head(all)
             key == dedupeKey(result)
         IN  IF key \in seenPlaintexts
             THEN dedupe(Tail(all), seenPlaintexts, unique)
             ELSE dedupe(Tail(all), seenPlaintexts \cup {key},
                         Append(unique, result))

\* list.sort((a, b) => b.confidence - a.confidence)
sortByConfidence(list) ==
    Items(SortDesc([i \in 1..Len(list) |-> <<list[i].confidence, list[i]>>]))

\* uniqueResults.sort(by confidence).slice(0, 15)
shortlist(all) == Take(sortByConfidence(dedupe(all, {}, <<>>)), 15)

\* the solver of the detected type
solveDetected(d, text, Q) ==
    IF d.likelyType = "caesar" THEN solveCaesar(text, Q)
    ELSE IF d.likelyType = "vigenere" THEN solveVigenere(text, d.keyLengths, Q)
    ELSE IF d.likelyType = "mono" THEN solveMonoSubstitution(text, Q)
    ELSE <<>>

\* the name of the solver of the detected type
solverOf(d) ==
    IF d.likelyType = "caesar" THEN "solveCaesar"
    ELSE IF d.likelyType = "vigenere" THEN "solveVigenere"
    ELSE IF d.likelyType = "mono" THEN "solveMonoSubstitution"
    ELSE "none"

\* every message with the progress 50
progressMessageMutant(status, progress) == [status |-> status, progress |-> 50]

progressMessage(status, progress) == [status |-> status, progress |-> progress]

\* stands in the variable quadgrams for the null that loadQuadgrams returns
\* when the body of /quadgrams.json is the JSON text null (its one key, the
\* empty string, is no quadgram)
NullTable == [q \in {<<>>} |-> 0]

\* the solver rejects with the TypeError of quadgramData[quad] on null: every
\* solver scores a text as long as the input, solveVigenere only when it
\* keeps a key length
solverThrows(solver, text, keyLengths, Q) ==
    /\ Q = NullTable
    /\ Len(normalizeText(text)) >= 4
    /\ solver = "solveVigenere" =>
           sortedKeyLengths(normalizeText(text), keyLengths) # <<>>

\* JSON.stringify and JSON.parse of a candidate: a property whose value is
\* undefined is left out
jsonCandidate(c) ==
    [c EXCEPT !.mapping = SelectSeq(c.mapping, LAMBDA e : e[2] # Undefined)]

jsonCandidates(list) == Tuple([i \in 1..Len(list) |-> jsonCandidate(list[i])])

\* candidates.sort((a, b) => (b.ngramScore || 0) - (a.ngramScore || 0)).slice(0, 3)
fallbackRanking(candidates) == topByScore(candidates, 3)

\* the response of the server when it does not use the LLM
fallbackResponse(candidates, warning) ==
    [kind |-> "http", ok |-> TRUE,
     body |-> [tag |-> "object", rankedCandidates |-> List(fallbackRanking(candidates)),
               usedLLM |-> FALSE, warning |-> warning]]

\* { ...candidates[ranking.candidate - 1], llmScore: ranking.score,
\*   confidence: Math.max(candidates[ranking.candidate - 1].confidence, ranking.score) }
\* (llmReasoning, a free text, is left out)
rankedCandidate(candidates, ranking) ==
    LET c == candidates[ranking.candidate]
    IN  [type |-> c.type, shift |-> c.shift, key |-> c.key, mapping |-> c.mapping,
         plaintext |-> c.plaintext, ngramScore |-> c.ngramScore,
         llmScore |-> ranking.score,
         confidence |-> Max(c.confidence, ranking.score)]

\* llmResult.rankings.map(...).slice(0, 3); candidates[k] is undefined for a
\* number k outside 1..candidates.length and reading its confidence throws,
\* which the catch turns into the fallback response
llmResponse(candidates, rankings) ==
    IF \E i \in 1..Len(rankings) : rankings[i].candidate \notin 1..Len(candidates)
    THEN fallbackResponse(candidates, "LLM ranking failed")
    ELSE [kind |-> "http", ok |-> TRUE,
          body |-> [tag |-> "object",
                    rankedCandidates |->
                        List(Take(Tuple([i \in 1..Len(rankings) |->
                                    rankedCandidate(candidates, rankings[i])]), 3)),
                    usedLLM |-> TRUE, warning |-> "none"]]

\* the rankings an LLM may answer for n candidates: any sequence of entries,
\* each naming a candidate number (possibly one that does not exist) and a
\* score, which the prompt asks to be in 0.0..1.0 and no code checks (the
\* last entry scores 1.5)
RankingEntries(n) ==
    {[candidate |-> 1, score |-> 950000], [candidate |-> 2, score |-> 950000],
     [candidate |-> 3, score |-> 10000], [candidate |-> n + 1, score |-> 500000],
     [candidate |-> 2, score |-> 1500000]}

RECURSIVE SeqsUpTo(_, _)
SeqsUpTo(S, n) ==
    IF n = 0 THEN {<<>>}
    ELSE LET shorter == SeqsUpTo(S, n - 1)
         IN  shorter \cup {Append(q, e) : q \in shorter, e \in S}

\* rankingData.rankedCandidates || candidatesForLLM.slice(0, 3)
orFallback(value, fallback) == IF value.tag = "undefined" THEN fallback ELSE value

(***************************************************************************)
(* Specification SpecWorker: one ANALYZE message handled by the worker,    *)
(* one step per await, with the server (or whatever answers in its place)  *)
(* settling the fetch.                                                     *)
(***************************************************************************)
\* "UVIKBQUPCWGZJMLDYFHSAENORUVI": the two columns of TwoColumnText, no
\* letter thrice, and UVI again after 25 letters, so that the detector
\* proposes the key length 5 alone
RepeatedTrigramText ==
    <<85, 86, 73, 75, 66, 81, 85, 80, 67, 87, 71, 90, 74, 77, 76, 68, 89, 70, 72, 83,
      65, 69, 78, 79, 82, 85, 86, 73>>

WorkerInputs ==
    {<<SampleCiphertext, EmptyTable>>, <<SampleCiphertext, EnglishTable>>,
     <<PeriodicText, SteepTable>>, <<PeriodicText, NearZeroTable>>,
     <<RepeatedTrigramText, EnglishTable>>,
     <<SampleCiphertext, NullTable>>, <<<<65, 66, 67, 68>>, NullTable>>,
     <<<<65>>, NullTable>>}
      \cup {<<t, EmptyTable>> : t \in StringsUpTo({65, 97, 32}, MaxWorkerLen)}

InitWorker ==
    /\ \E in \in WorkerInputs : ciphertext = in[1] /\ quadgrams = in[2]
    /\ apiKey \in BOOLEAN
    /\ pc = "start"
    /\ normalized = <<>>
    /\ detection = NoDetection
    /\ fmapping = <<>>
    /\ caesarResults = <<>>
    /\ vigenereResults = <<>>
    /\ monoResults = <<>>
    /\ climbSt = NoClimb
    /\ results = <<>>
    /\ candidatesForLLM = <<>>
    /\ finalResults = Nothing
    /\ posted = <<>>
    /\ request = Nothing
    /\ response = Nothing
    /\ uniqueResults = <<>>
    /\ invoked = <<>>
    /\ loaded = FALSE
    /\ loaders = <<>>
    /\ fetches = 0
    /\ calls = <<>>
    /\ served = EmptyTable
    /\ lastKeyLengths = <<>>

\* onmessage and analyzeCipher up to the first await
WorkerDetect ==
    /\ pc = "start"
    /\ detection' = detectCipherType(ciphertext)
    /\ posted' = posted \o
          <<progressMessage("detecting", 10),
            [status |-> "detecting", progress |-> 30, detection |-> detection'],
            progressMessage("solving", 40),
            progressMessage("solving", 60)>>
    /\ invoked' = Append(invoked, "detectCipherType")
    /\ pc' = "solveDetected"
    /\ UNCHANGED <<ciphertext, normalized, fmapping, solveVars, results,
                   candidatesForLLM, finalResults, apiKey, request, response,
                   
                   uniqueResults, loaded, loaders, fetches, served, lastKeyLengths, calls>>

WorkerSolveDetected ==
    /\ pc = "solveDetected"
    /\ ~solverThrows(solverOf(detection), ciphertext, detection.keyLengths, quadgrams)
    /\ results' = solveDetected(detection, ciphertext, quadgrams)
    /\ posted' = Append(posted, progressMessage("solving", 80))
    /\ invoked' = Append(invoked, solverOf(detection))
    /\ lastKeyLengths' = IF detection.likelyType = "vigenere" THEN detection.keyLengths
                         ELSE lastKeyLengths
    /\ pc' = "solveCaesar"
    /\ UNCHANGED <<ciphertext, textVars, solveVars, candidatesForLLM, finalResults,
                   apiKey, request, response, 
                   uniqueResults, loaded, loaders, fetches, served, calls>>

WorkerSolveCaesar ==
    /\ pc = "solveCaesar"
    /\ ~solverThrows("solveCaesar", ciphertext, <<>>, quadgrams)
    /\ caesarResults' = solveCaesar(ciphertext, quadgrams)
    /\ invoked' = Append(invoked, "solveCaesar")
    /\ pc' = "solveVigenere"
    /\ UNCHANGED <<ciphertext, textVars, quadgrams, vigenereResults, monoResults,
                   climbSt, workerVars, 
                   uniqueResults, loaded, loaders, fetches, served, lastKeyLengths, calls>>

WorkerSolveVigenere ==
    /\ pc = "solveVigenere"
    /\ vigenereResults' = solveVigenere(ciphertext, AllKeyLengths, quadgrams)
    /\ invoked' = Append(invoked, "solveVigenere")
    /\ lastKeyLengths' = AllKeyLengths
    /\ pc' = "solveMono"
    /\ UNCHANGED <<ciphertext, textVars, quadgrams, caesarResults, monoResults,
                   climbSt, workerVars, 
                   uniqueResults, loaded, loaders, fetches, served, calls>>

\* the third solver, the deduplication, the shortlist and the fetch
WorkerSolveMono ==
    /\ pc = "solveMono"
    /\ monoResults' = solveMonoSubstitution(ciphertext, quadgrams)
    /\ candidatesForLLM' =
          shortlist(allResults(results, caesarResults, vigenereResults, monoResults'))
    /\ posted' = Append(posted, progressMessage("solving", 90))
    /\ finalResults' = List(Take(candidatesForLLM', 3))
    /\ request' = [tag |-> "object", candidates |-> jsonCandidates(candidatesForLLM'),
                   originalCipher |-> ciphertext]
    /\ invoked' = Append(invoked, "solveMonoSubstitution")
    /\ uniqueResults' =
          sortByConfidence(dedupe(allResults(results, caesarResults, vigenereResults,
                                             monoResults'), {}, <<>>))
    /\ pc' = "fetching"
    /\ UNCHANGED <<ciphertext, textVars, quadgrams, caesarResults, vigenereResults,
                   climbSt, results, apiKey, response, 
                   loaded, loaders, fetches, served, lastKeyLengths, calls>>

\* what settling the fetch leaves alone
settleFrame ==
    UNCHANGED <<ciphertext, textVars, solveVars, results, candidatesForLLM,
                finalResults, posted, apiKey, request, extraVars>>

\* the request does not reach a server
FetchRejects ==
    /\ pc = "fetching"
    /\ response' = [kind |-> "reject"]
    /\ pc' = "settled"
    /\ settleFrame

\* a status outside 200..299 from the server's host or a gateway
FetchNotOk ==
    /\ pc = "fetching"
    /\ response' = [kind |-> "http", ok |-> FALSE]
    /\ pc' = "settled"
    /\ settleFrame

\* a 200 whose body is not what the server writes: not JSON, null, an object
\* without rankedCandidates, an object whose rankedCandidates is no list
FetchForeignBody ==
    /\ pc = "fetching"
    /\ \E b \in {[tag |-> "unparsable"], [tag |-> "null"],
                 [tag |-> "object", rankedCandidates |-> Nothing,
                  usedLLM |-> FALSE, warning |-> "none"],
                 [tag |-> "object", rankedCandidates |-> NotAList,
                  usedLLM |-> FALSE, warning |-> "none"]} :
          response' = [kind |-> "http", ok |-> TRUE, body |-> b]
    /\ pc' = "settled"
    /\ settleFrame

\* (the 400 of the server for an empty candidates list is not an action: the
\* shortlist of the worker always holds a Caesar candidate)
ServerNoApiKey ==
    /\ pc = "fetching"
    /\ request.candidates # <<>>
    /\ ~apiKey
    /\ response' = fallbackResponse(request.candidates, "OpenAI API key not configured")
    /\ pc' = "settled"
    /\ settleFrame

\* the completion throws, is empty, or is not JSON with a rankings list
ServerLLMFails ==
    /\ pc = "fetching"
    /\ request.candidates # <<>>
    /\ apiKey
    /\ response' = fallbackResponse(request.candidates, "LLM ranking failed")
    /\ pc' = "settled"
    /\ settleFrame

ServerLLMRanks ==
    /\ pc = "fetching"
    /\ request.candidates # <<>>
    /\ apiKey
    /\ \E rankings \in SeqsUpTo(RankingEntries(Len(request.candidates)), MaxRankings) :
          response' = llmResponse(request.candidates, rankings)
    /\ pc' = "settled"
    /\ settleFrame

\* the rest of analyzeCipher and the postMessage of onmessage
WorkerComplete ==
    /\ pc = "settled"
    /\ finalResults' =
          IF response.kind = "http" /\ response.ok /\ response.body.tag = "object"
          THEN orFallback(response.body.rankedCandidates, finalResults)
          ELSE finalResults
    /\ posted' = Append(posted, [status |-> "completed", progress |-> 100,
                                 detection |-> detection, results |-> finalResults'])
    /\ pc' = "done"
    /\ UNCHANGED <<ciphertext, textVars, solveVars, results, candidatesForLLM,
                   apiKey, request, response, extraVars>>

\* the solver awaited at line 53, 62 or 71 rejects: the outer catch
WorkerDetectedThrows ==
    /\ pc = "solveDetected"
    /\ solverThrows(solverOf(detection), ciphertext, detection.keyLengths, quadgrams)
    /\ posted' = Append(posted, [status |-> "error", progress |-> 0])
    /\ invoked' = Append(invoked, solverOf(detection))
    /\ pc' = "failed"
    /\ UNCHANGED <<ciphertext, textVars, solveVars, results, candidatesForLLM,
                   finalResults, apiKey, request, response, uniqueResults, loaded,
                   loaders, fetches, served, lastKeyLengths, calls>>

\* the solveCaesar awaited at line 82 rejects: the outer catch
WorkerCaesarThrows ==
    /\ pc = "solveCaesar"
    /\ solverThrows("solveCaesar", ciphertext, <<>>, quadgrams)
    /\ posted' = Append(posted, [status |-> "error", progress |-> 0])
    /\ invoked' = Append(invoked, "solveCaesar")
    /\ pc' = "failed"
    /\ UNCHANGED <<ciphertext, textVars, solveVars, results, candidatesForLLM,
                   finalResults, apiKey, request, response, uniqueResults, loaded,
                   loaders, fetches, served, lastKeyLengths, calls>>

NextWorker ==
    \/ WorkerDetect
    \/ WorkerSolveDetected
    \/ WorkerSolveCaesar
    \/ WorkerSolveVigenere
    \/ WorkerSolveMono
    \/ FetchRejects
    \/ FetchNotOk
    \/ FetchForeignBody
    \/ ServerNoApiKey
    \/ ServerLLMFails
    \/ ServerLLMRanks
    \/ WorkerComplete
    \/ WorkerDetectedThrows
    \/ WorkerCaesarThrows

SpecWorker == InitWorker /\ [][NextWorker]_vars

(***************************************************************************)
(* Properties of analyzeCipher and /api/rank-decryptions (specification    *)
(* SpecWorker).                                                            *)
(***************************************************************************)
\* C5: for an input without letters, detectCipherType returns the vigenere
\* fallback with a confidence below 0.5 and the analysis yields an empty
\* candidate set.
C5_EmptyInputEmptyCandidates ==
    (pc = "done" /\ normalizeText(ciphertext) = <<>>) =>
        /\ detection.likelyType = "vigenere"
        /\ detection.confidence < 500000
        /\ candidatesForLLM = <<>>

\* the re-ranking collaborator was unavailable or failed: the fetch rejected,
\* the status was not OK, the body could not be parsed, or the server answered
\* with its fallback (no API key, or the LLM call or its parsing threw)
CollaboratorFailed ==
    \/ response.kind = "reject"
    \/ response.kind = "http" /\ ~response.ok
    \/ response.kind = "http" /\ response.ok /\ response.body.tag = "unparsable"
    \/ response.kind = "http" /\ response.ok /\ response.body.tag = "object"
         /\ response.body.warning # "none"

\* list holds min(3, |candidates|) distinct candidates of the shortlist, in
\* non-increasing confidence order, and no candidate left out has a higher
\* confidence than one of them
IsTopThreeByConfidence(list, candidates) ==
    /\ Len(list) = Min(3, Len(candidates))
    /\ \A i \in 1..Len(list) :
          \E k \in 1..Len(candidates) :
              /\ candidates[k].plaintext = list[i].plaintext
              /\ candidates[k].type = list[i].type
              /\ candidates[k].confidence = list[i].confidence
    /\ \A i \in 1..Len(list), j \in 1..Len(list) :
          i < j => /\ list[i].plaintext # list[j].plaintext
                   /\ list[i].confidence >= list[j].confidence
    /\ \A k \in 1..Len(candidates), i \in 1..Len(list) :
          candidates[k].confidence > list[i].confidence =>
              \E j \in 1..Len(list) : list[j].plaintext = candidates[k].plaintext

\* C6: when the re-ranking collaborator is unavailable or fails, the results
\* of the completed analysis are exactly the 3 deduplicated candidates with
\* the highest local confidence, in non-increasing confidence order.
C6_FallbackIsTopThreeByConfidence ==
    (pc = "done" /\ CollaboratorFailed) =>
        /\ finalResults.tag = "list"
        /\ IsTopThreeByConfidence(finalResults.items, candidatesForLLM)

\* C7: for every outcome of the re-ranking call analyzeCipher finishes with
\* status 'completed' carrying a detection and a results list, never 'error'.
C7_CompletedWithResultsList ==
    pc = "done" =>
        LET last == posted[Len(posted)]
        IN  /\ last.status = "completed"
            /\ last.detection = detection
            /\ last.results.tag = "list"

\* the five fields the collaborator must not alter
SameCandidate(a, b) ==
    /\ a.plaintext = b.plaintext
    /\ a.type = b.type
    /\ a.key = b.key
    /\ a.shift = b.shift
    /\ a.mapping = b.mapping

\* the server has answered with ranked candidates
ServerAnswered ==
    /\ response.kind = "http"
    /\ response.ok
    /\ response.body.tag = "object"
    /\ response.body.rankedCandidates.tag = "list"

\* C8: the candidates /api/rank-decryptions returns are a re-ordering or
\* truncation of the request's candidates: each has plaintext, type, key,
\* shift and mapping of one request candidate, no request candidate is
\* returned more than once, and analyzeCipher passes them on unchanged.
C8_RankedAreRequestCandidates ==
    (pc \in {"settled", "done"} /\ ServerAnswered) =>
        LET ranked == response.body.rankedCandidates.items
            f(i) == CHOOSE k \in 1..Len(request.candidates) :
                        SameCandidate(ranked[i], request.candidates[k])
        IN  /\ \A i \in 1..Len(ranked) :
                  \E k \in 1..Len(request.candidates) :
                      SameCandidate(ranked[i], request.candidates[k])
            /\ \A i \in 1..Len(ranked), j \in 1..Len(ranked) : i # j => f(i) # f(j)
            /\ pc = "done" => finalResults = response.body.rankedCandidates


(***************************************************************************)
(* Specification SpecLoad: scoreText calls made one after the other or     *)
(* overlapping.  Each call awaits loadQuadgrams, which returns the module  *)
(* variable quadgrams when it is truthy and fetches /quadgrams.json        *)
(* otherwise; the fetch settles later, in any order with the other calls.  *)
(***************************************************************************)
MaxLoads == 3

\* AAAA at 0 (the logarithm of a count of one), AAAB at -2.5
ZeroTable == [q \in {<<65, 65, 65, 65>>, <<65, 65, 65, 66>>} |->
                 IF q[4] = 65 THEN 0 ELSE -2500]

\* AAAA at -3, AAAB at -2.5
LogTable == [q \in {<<65, 65, 65, 65>>, <<65, 65, 65, 66>>} |->
                IF q[4] = 65 THEN -3000 ELSE -2500]

ServedTables == {EmptyTable, ZeroTable, LogTable}

\* "AB", "AAAA", "aaaa b", "AAAAAB"
ScoreTexts ==
    {<<65, 66>>, <<65, 65, 65, 65>>, <<97, 97, 97, 97, 32, 98>>,
     <<65, 65, 65, 65, 65, 66>>}

\* the values loadQuadgrams resolves with
TableValue(Q) == [tag |-> "table", table |-> Q]
NullValue == [tag |-> "null", table |-> EmptyTable]

\* the rest of scoreText once loadQuadgrams has resolved with value v:
\* indexing null throws a TypeError in the first iteration of the loop
scoreWith(text, v) ==
    IF v.tag = "null" /\ Len(normalizeText(text)) >= 4
    THEN [tag |-> "TypeError", score |-> 0]
    ELSE [tag |-> "number", score |-> scoreText(text, v.table)]

\* the calls that have returned
Returned == {i \in 1..Len(loaders) : loaders[i].pc = "done"}

\* the calls waiting for their fetch
Fetching == {i \in 1..Len(loaders) : loaders[i].pc = "fetching"}

InitLoad ==
    /\ served \in ServedTables
    /\ lastKeyLengths = <<>>
    /\ ciphertext = <<>>
    /\ pc = "load"
    /\ normalized = <<>>
    /\ detection = NoDetection
    /\ fmapping = <<>>
    /\ quadgrams = EmptyTable
    /\ caesarResults = <<>>
    /\ vigenereResults = <<>>
    /\ monoResults = <<>>
    /\ climbSt = NoClimb
    /\ results = <<>>
    /\ candidatesForLLM = <<>>
    /\ finalResults = Nothing
    /\ posted = <<>>
    /\ apiKey = FALSE
    /\ request = Nothing
    /\ response = Nothing
    /\ uniqueResults = <<>>
    /\ invoked = <<>>
    /\ loaded = FALSE
    /\ loaders = <<>>
    /\ fetches = 0
    /\ calls = <<>>

loadFrame ==
    UNCHANGED <<ciphertext, pc, textVars, caesarResults, vigenereResults,
                monoResults, climbSt, workerVars, uniqueResults, invoked,
                served, lastKeyLengths, calls>>

\* scoreText(text) when quadgrams is truthy: loadQuadgrams returns it
ScoreMemoized ==
    /\ Len(loaders) < MaxLoads
    /\ loaded
    /\ \E text \in ScoreTexts :
          loaders' = Append(loaders,
              [text |-> text, pc |-> "done", fetched |-> FALSE,
               after |-> Returned, during |-> Fetching,
               value |-> TableValue(quadgrams),
               result |-> scoreWith(text, TableValue(quadgrams))])
    /\ UNCHANGED <<quadgrams, loaded, fetches>>
    /\ loadFrame

\* scoreText(text) when quadgrams is null: loadQuadgrams starts a fetch
ScoreFetch ==
    /\ Len(loaders) < MaxLoads
    /\ ~loaded
    /\ \E text \in ScoreTexts :
          loaders' = Append(loaders,
              [text |-> text, pc |-> "fetching", fetched |-> TRUE,
               after |-> Returned, during |-> Fetching,
               value |-> NullValue,
               result |-> [tag |-> "pending", score |-> 0]])
    /\ fetches' = fetches + 1
    /\ UNCHANGED <<quadgrams, loaded>>
    /\ loadFrame

\* the fetch resolves and response.json() gives the served table
LoadResolves ==
    /\ \E i \in Fetching :
          loaders' = [loaders EXCEPT ![i].pc = "done",
                         ![i].value = TableValue(served),
                         ![i].result = scoreWith(loaders[i].text, TableValue(served))]
    /\ quadgrams' = served
    /\ loaded' = TRUE
    /\ UNCHANGED fetches
    /\ loadFrame

\* the fetch rejects, or the body is not JSON: the catch returns {}
LoadFails ==
    /\ \E i \in Fetching :
          loaders' = [loaders EXCEPT ![i].pc = "done",
                         ![i].value = TableValue(EmptyTable),
                         ![i].result = scoreWith(loaders[i].text, TableValue(EmptyTable))]
    /\ UNCHANGED <<quadgrams, loaded, fetches>>
    /\ loadFrame

\* the body is the JSON text null: quadgrams = null, and null is returned
LoadResolvesNull ==
    /\ \E i \in Fetching :
          loaders' = [loaders EXCEPT ![i].pc = "done",
                         ![i].value = NullValue,
                         ![i].result = scoreWith(loaders[i].text, NullValue)]
    /\ quadgrams' = EmptyTable
    /\ loaded' = FALSE
    /\ UNCHANGED fetches
    /\ loadFrame

NextLoad ==
    \/ ScoreMemoized
    \/ ScoreFetch
    \/ LoadResolves
    \/ LoadFails
    \/ LoadResolvesNull

SpecLoad == InitLoad /\ [][NextLoad]_vars

(***************************************************************************)
(* Properties of loadQuadgrams and scoreText (specification SpecLoad).     *)
(***************************************************************************)
\* C13: loadQuadgrams is memoized and idempotent: a call made after another
\* call has returned does not fetch again and returns the table that call
\* returned (the empty table when that call's load failed).
C13_LoadMemoized ==
    \A j \in 1..Len(loaders) : \A i \in loaders[j].after :
        /\ ~loaders[j].fetched
        /\ loaders[j].pc = "done" => loaders[j].value = loaders[i].value

\* C14: when loadQuadgrams calls overlap before the table is populated, at
\* most one load is performed (a call that begins while another waits for
\* its fetch does not fetch) and the overlapping calls return the same table.
C14_SingleLoadUnderOverlap ==
    \A j \in 1..Len(loaders) : \A i \in loaders[j].during :
        /\ ~loaders[j].fetched
        /\ (loaders[i].pc = "done" /\ loaders[j].pc = "done") =>
               loaders[j].value = loaders[i].value

\* the score the specification gives: the table's value for a window that is
\* a key of the table, -12 for a window that is not
specScore(text, Q) ==
    LET t == normalizeText(text)
        n == Len(t)
        window(i) == SubSeq(t, i, i + 3)
    IN  IF n < 4 THEN -999999000
        ELSE SumSeq([i \in 1..(n - 3) |->
                        IF window(i) \in DOMAIN Q THEN Q[window(i)] ELSE -12000])
                 \div (n - 3)

\* C15: scoreText is total: a call that obtained a table returns a number,
\* the sentinel -999999 below four letters and otherwise the mean over the
\* 4-letter windows of the table's value when the window is in the table and
\* of -12 when it is not.
C15_ScoreTextTotal ==
    \A i \in Returned :
        loaders[i].value.tag = "table" =>
            /\ loaders[i].result.tag = "number"
            /\ loaders[i].result.score =
                   specScore(loaders[i].text, loaders[i].value.table)

(***************************************************************************)
(* Properties of the hill climbing loop (specification SpecSolve).         *)
(***************************************************************************)
\* an iteration of the loop in SpecSolve
ClimbIteration == pc = "climb" /\ climbSt'.iter = climbSt.iter + 1

\* C12: during hill climbing the best-known score never decreases; an
\* iteration replaces the best mapping only by a mapping whose score is
\* strictly greater than the best score, and otherwise leaves the best
\* mapping and the best score as they were.
C12_BestScoreMonotone ==
    [][ClimbIteration =>
          /\ climbSt'.bestScore >= climbSt.bestScore
          /\ \/ /\ climbSt'.bestScore > climbSt.bestScore
                /\ climbSt'.bestScore =
                       scoreText(applyMapping(climbSt'.bestMapping, normalized),
                                 quadgrams)
             \/ /\ climbSt'.bestMapping = climbSt.bestMapping
                /\ climbSt'.bestScore = climbSt.bestScore]_vars

\* the loop has run to its end, an iteration has replaced the best mapping
\* and the last iterations have left it alone
C12_Witness ==
    /\ pc = "climb"
    /\ climbSt.iter = maxIterations
    /\ climbSt.bestMapping # frequencyMapping(normalized)
    /\ climbStep(climbSt, normalized, quadgrams).bestMapping = climbSt.bestMapping

(***************************************************************************)
(* Specification SpecMonoCalls: two solveMonoSubstitution calls on the     *)
(* same ciphertext, interleaved at their await points (every scoreText is  *)
(* one).  Each call has its own locals: results, bestMapping, bestScore,   *)
(* iter and the generator rng created at line 548.                         *)
(***************************************************************************)
CallIds == {1, 2}

\* the locals of a call that has not started
NewCall == [pc |-> "start", results |-> <<>>, st |-> NoClimb]

rngSharedMutant(cs, c) == cs[1].st.rng

\* the generator call c draws from: its own local rng
rngOf(cs, c) == cs[c].st.rng

MonoCallInputs ==
    {<<PeriodicText, NearZeroTable>>, <<PeriodicText, SteepTable>>,
     <<PeriodicText, EmptyTable>>, <<SampleCiphertext, EnglishTable>>}
      \cup {<<t, EmptyTable>> : t \in StringsUpTo({65, 66}, MaxSolveLen)}

InitMonoCalls ==
    /\ \E in \in MonoCallInputs : ciphertext = in[1] /\ quadgrams = in[2]
    /\ pc = "calls"
    /\ normalized = <<>>
    /\ detection = NoDetection
    /\ fmapping = <<>>
    /\ caesarResults = <<>>
    /\ vigenereResults = <<>>
    /\ monoResults = <<>>
    /\ climbSt = NoClimb
    /\ results = <<>>
    /\ candidatesForLLM = <<>>
    /\ finalResults = Nothing
    /\ posted = <<>>
    /\ apiKey = FALSE
    /\ request = Nothing
    /\ response = Nothing
    /\ uniqueResults = <<>>
    /\ invoked = <<>>
    /\ loaded = FALSE
    /\ loaders = <<>>
    /\ fetches = 0
    /\ calls = [c \in CallIds |-> NewCall]
    /\ served = EmptyTable
    /\ lastKeyLengths = <<>>

\* what a step of one call leaves alone
callFrame ==
    UNCHANGED <<ciphertext, pc, textVars, solveVars, workerVars, uniqueResults,
                invoked, loaded, loaders, fetches, served, lastKeyLengths>>

CallFrequency(c) ==
    /\ calls[c].pc = "start"
    /\ calls' = [calls EXCEPT ![c].pc = "pattern",
                    ![c].results = <<frequencyCandidate(normalizeText(ciphertext),
                                                       quadgrams)>>]
    /\ callFrame

CallPattern(c) ==
    /\ calls[c].pc = "pattern"
    /\ LET t == normalizeText(ciphertext)
       IN  calls' = [calls EXCEPT
                        ![c].results = @ \o patternCandidates(t, quadgrams),
                        ![c].st = IF Len(t) > 20 THEN climbInit(t, quadgrams) ELSE @,
                        ![c].pc = IF Len(t) > 20 THEN "climb" ELSE "sort"]
    /\ callFrame

CallClimbIterate(c) ==
    /\ calls[c].pc = "climb"
    /\ calls[c].st.iter < maxIterations
    /\ calls' = [calls EXCEPT
                    ![c].st = climbStep([@ EXCEPT !.rng = rngOf(calls, c)],
                                        normalizeText(ciphertext), quadgrams)]
    /\ callFrame

CallClimbFinish(c) ==
    /\ calls[c].pc = "climb"
    /\ calls[c].st.iter >= maxIterations
    /\ calls' = [calls EXCEPT
                    ![c].results = @ \o optimizedCandidates(calls[c].st,
                                            normalizeText(ciphertext), quadgrams),
                    ![c].pc = "sort"]
    /\ callFrame

CallReturn(c) ==
    /\ calls[c].pc = "sort"
    /\ calls' = [calls EXCEPT ![c].results = topByScore(@, 5), ![c].pc = "done"]
    /\ callFrame

NextMonoCalls ==
    \E c \in CallIds :
        \/ CallFrequency(c)
        \/ CallPattern(c)
        \/ CallClimbIterate(c)
        \/ CallClimbFinish(c)
        \/ CallReturn(c)

SpecMonoCalls == InitMonoCalls /\ [][NextMonoCalls]_vars

(***************************************************************************)
(* Properties of concurrent solveMonoSubstitution calls (specification     *)
(* SpecMonoCalls).                                                         *)
(***************************************************************************)
\* every pair of calls that have returned hold the same candidate list
CallsAgree ==
    \A c \in CallIds, d \in CallIds :
        (calls[c].pc = "done" /\ calls[d].pc = "done") =>
            calls[c].results = calls[d].results

\* a step that advances the generator of call c is an iteration of call c,
\* and it draws twice from the state c left it in
OwnGeneratorOnly ==
    \A c \in CallIds :
        (calls[c].pc = "climb" /\ calls'[c].st.rng # calls[c].st.rng) =>
            /\ calls'[c].st.iter = calls[c].st.iter + 1
            /\ calls'[c].st.rng = rngNext(rngNext(calls[c].st.rng))

Pooled == pc \in {"fetching", "settled", "done"}

\* the index of the first character of s at or after i that is not a space
RECURSIVE firstNonSpace(_, _)
firstNonSpace(s, i) ==
    IF i > Len(s) \/ s[i] # 32 THEN i ELSE firstNonSpace(s, i + 1)

\* the index of the last character of s at or before i that is not a space
RECURSIVE lastNonSpace(_, _)
lastNonSpace(s, i) ==
    IF i < 1 \/ s[i] # 32 THEN i ELSE lastNonSpace(s, i - 1)

\* the first 100 characters of the plaintext, upper-cased, then trimmed
fingerprint(c) ==
    LET first == SubSeq(c.plaintext, 1, Min(100, Len(c.plaintext)))
        upper == Tuple([i \in 1..Len(first) |->
                     IF first[i] \in 97..122 THEN first[i] - 32 ELSE first[i]])
    IN  SubSeq(upper, firstNonSpace(upper, 1), lastNonSpace(upper, Len(upper)))

\* the fingerprints of a list of candidates
fingerprints(list) == {fingerprint(list[i]) : i \in 1..Len(list)}

\* C16: analyzeCipher invokes the detector and then, after the solver of the
\* detected type, all three solvers, whatever likelyType is; the outputs of
\* all three solvers enter the deduplicated pool.
C16_AllSolversRun ==
    Pooled =>
        /\ invoked = <<"detectCipherType", solverOf(detection), "solveCaesar",
                       "solveVigenere", "solveMonoSubstitution">>
        /\ fingerprints(caesarResults) \subseteq fingerprints(uniqueResults)
        /\ fingerprints(vigenereResults) \subseteq fingerprints(uniqueResults)
        /\ fingerprints(monoResults) \subseteq fingerprints(uniqueResults)

\* the detected type is mono and each of the three solvers has returned
\* candidates, some of them with a fingerprint the detected solver did not give
C16_Witness ==
    /\ Pooled
    /\ detection.likelyType = "mono"
    /\ caesarResults # <<>> /\ vigenereResults # <<>> /\ monoResults # <<>>
    /\ ~(fingerprints(caesarResults) \subseteq fingerprints(results))
    /\ ~(fingerprints(vigenereResults) \subseteq fingerprints(results))

\* C17: after deduplication no two survivors share a fingerprint, and every
\* fingerprint among the concatenated solver outputs is the fingerprint of
\* exactly one survivor (before the cut to 15), each survivor being one of
\* the outputs.
C17_DedupeByFingerprint ==
    Pooled =>
        LET all == results \o caesarResults \o vigenereResults \o monoResults
        IN  /\ \A i \in 1..Len(uniqueResults), j \in 1..Len(uniqueResults) :
                  i # j => fingerprint(uniqueResults[i]) # fingerprint(uniqueResults[j])
            /\ \A k \in 1..Len(all) :
                  Cardinality({i \in 1..Len(uniqueResults) :
                      fingerprint(uniqueResults[i]) = fingerprint(all[k])}) = 1
            /\ \A i \in 1..Len(uniqueResults) :
                  \E k \in 1..Len(all) : uniqueResults[i] = all[k]

\* the solvers gave the same fingerprint more than once and several survive
C17_Witness ==
    /\ Pooled
    /\ Len(uniqueResults) >= 2
    /\ Len(uniqueResults) <
           Len(results) + Len(caesarResults) + Len(vigenereResults) + Len(monoResults)

(***************************************************************************)
(* Properties of the confidences of analyzeCipher (specification           *)
(* SpecWorker).                                                            *)
(***************************************************************************)
\* C18: every candidate in the results of a completed analysis has a
\* confidence in [0, 1], whether the results are the local fallback or the
\* answer of /api/rank-decryptions, and every candidate the solvers emit has
\* a confidence in [0.01, 0.99].
C18_ConfidenceInUnitInterval ==
    /\ (pc = "done" /\ finalResults.tag = "list") =>
          \A i \in 1..Len(finalResults.items) :
              finalResults.items[i].confidence \in 0..1000000
    /\ Pooled =>
          LET all == results \o caesarResults \o vigenereResults \o monoResults
          IN  \A k \in 1..Len(all) : all[k].confidence \in 10000..990000

(***************************************************************************)
(* Properties of detectCipherType (specification SpecText).                *)
(***************************************************************************)
\* detectCipherType has run
Detected == pc \in {"detected", "mapped"}

\* the merged votes of the key lengths 2..20 (entry k - 1 is the vote of k):
\* 3 when the Kasiski examination proposes the length, plus 2 when the
\* Friedman test does
voteWeights(text) ==
    LET fr == friedmanTest(text)
        ka == kasiskiExamination(text)
    IN  Tuple([n \in 1..19 |->
                  (IF \E i \in 1..Len(ka) : ka[i] = n + 1 THEN 3 ELSE 0)
                    + (IF \E i \in 1..Len(fr) : fr[i] = n + 1 THEN 2 ELSE 0)])

\* C19: keyLengths is a non-empty list of at most 8 pairwise distinct
\* integers in 2..20 ordered by non-increasing merged vote weight (Kasiski
\* 3, Friedman 2), the heaviest of the lengths a test proposes; when neither
\* test proposes a length it is exactly [2, 3, 4, 5, 6].
C19_KeyLengthsWellFormed ==
    Detected =>
        LET kl == detection.keyLengths
            w == voteWeights(ciphertext)
            proposed == {k \in 2..20 : w[k - 1] > 0}
        IN  /\ Len(kl) \in 1..8
            /\ \A i \in 1..Len(kl) : kl[i] \in 2..20
            /\ \A i \in 1..Len(kl), j \in 1..Len(kl) : i # j => kl[i] # kl[j]
            /\ IF proposed = {} THEN kl = <<2, 3, 4, 5, 6>>
               ELSE /\ \A i \in 1..Len(kl) : kl[i] \in proposed
                    /\ \A i \in 1..Len(kl), j \in 1..Len(kl) :
                          i < j => w[kl[i] - 1] >= w[kl[j] - 1]
                    /\ Len(kl) = Min(8, Cardinality(proposed))
                    /\ \A k \in proposed :
                          (\A i \in 1..Len(kl) : kl[i] # k) =>
                              \A i \in 1..Len(kl) : w[kl[i] - 1] >= w[k - 1]

\* both tests propose lengths, with different weights, and more than eight
\* lengths are proposed, so that the cut to 8 drops some
C19_Witness ==
    /\ Detected
    /\ detection.keyLengths = <<4, 6, 2, 3, 12, 5, 7, 8>>
    /\ LET w == voteWeights(ciphertext)
       IN  /\ Cardinality({k \in 2..20 : w[k - 1] > 0}) > 8
           /\ w[4 - 1] = 5 /\ w[12 - 1] = 3 /\ w[8 - 1] = 2

\* C20: in every branch of detectCipherType the confidence lies in
\* [0, 0.95] and likelyType is one of caesar, vigenere and mono.
C20_DetectionConfidenceBounded ==
    Detected =>
        /\ detection.confidence \in 0..950000
        /\ detection.likelyType \in {"caesar", "vigenere", "mono"}

\* a text for which the cap decides: "AA" has an index of coincidence of 1,
\* and (1 - 0.05) * 18 is far above 0.95
C20_Witness ==
    /\ Detected
    /\ normalized = <<65, 65>>
    /\ detection.likelyType = "caesar"
    /\ detection.confidence = 950000

(***************************************************************************)
(* Properties of calculateIC (specification SpecText).                     *)
(***************************************************************************)
\* the text read backwards
Reverse(t) == [i \in 1..Len(t) |-> t[Len(t) + 1 - i]]

\* the text with its first character moved to the end
Rotate(t) == IF t = <<>> THEN t ELSE Tail(t) \o <<Head(t)>>

\* sum over the letters A..Z of f(f - 1), f the count of the letter in t
coincidences(t) ==
    SumSeq([i \in 1..26 |-> Count(t, 64 + i) * (Count(t, 64 + i) - 1)])

\* two exact ratios are the same number
SameRatio(a, b) == a.num * b.den = b.num * a.den

\* C21: calculateIC returns exactly 0 when the normalized text has length 0
\* or 1, and for a longer text sum f(f - 1) / (n(n - 1)), a value in [0, 1]
\* that a reordering of the text (reversal, rotation) leaves unchanged.
C21_IndexOfCoincidence ==
    Detected =>
        LET ic == detection.ic
            n == Len(normalized)
        IN  /\ ic.den > 0
            /\ n <= 1 => ic.num = 0
            /\ n >= 2 => SameRatio(ic, [num |-> coincidences(normalized),
                                        den |-> n * (n - 1)])
            /\ 0 <= ic.num /\ ic.num <= ic.den
            /\ SameRatio(calculateIC(Reverse(ciphertext)), ic)
            /\ SameRatio(calculateIC(Rotate(ciphertext)), ic)

\* a text of several letters, some repeated, that is not its own reversal,
\* with an index of coincidence strictly between 0 and 1
C21_Witness ==
    /\ Detected
    /\ Len(normalized) >= 3
    /\ normalized # Reverse(normalized)
    /\ 0 < detection.ic.num /\ detection.ic.num < detection.ic.den

(***************************************************************************)
(* Properties of solveCaesar and solveVigenere (specification SpecSolve).  *)
(***************************************************************************)
\* the letter c moved back by shift places, modulo 26
movedBack(c, shift) == 65 + ((c - 65 + 26 - shift) % 26)

\* C22: solveCaesar returns exactly the 10 best of the 26 shift candidates:
\* pairwise distinct shifts in 0..25, each plaintext the normalized
\* ciphertext with every letter moved back by the shift modulo 26, in
\* non-increasing combined score, and no omitted shift scores strictly higher
\* than a returned one.
C22_CaesarTopTen ==
    pc = "caesarDone" =>
        LET t == normalizeText(ciphertext)
            returned == {caesarResults[i].shift[1] : i \in 1..Len(caesarResults)}
        IN  /\ Len(caesarResults) = 10
            /\ \A i \in 1..10 :
                  /\ caesarResults[i].type = "caesar"
                  /\ caesarResults[i].shift[1] \in 0..25
                  /\ caesarResults[i].plaintext =
                         [k \in 1..Len(t) |-> movedBack(t[k], caesarResults[i].shift[1])]
            /\ \A i \in 1..10, j \in 1..10 :
                  i # j => caesarResults[i].shift # caesarResults[j].shift
            /\ \A i \in 1..9 :
                  caesarResults[i].ngramScore >= caesarResults[i + 1].ngramScore
            /\ \A sh \in (0..25) \ returned :
                  caesarCandidate(t, sh, quadgrams).ngramScore
                      <= caesarResults[10].ngramScore

\* the ten candidates of the sample under the English table: the best scores
\* strictly higher than the tenth
C22_Witness ==
    /\ pc = "caesarDone"
    /\ quadgrams = EnglishTable
    /\ Len(caesarResults) = 10
    /\ caesarResults[1].ngramScore > caesarResults[10].ngramScore
    /\ caesarResults[1].shift # <<0>>

\* the key lengths of the list that solveVigenere may solve for a text of n
\* letters: those with 2 <= L <= min(20, n / 3), the first 8 in list order
solvable(kl, n) ==
    LET ok == {i \in 1..Len(kl) : 2 <= kl[i] /\ kl[i] <= 20 /\ 3 * kl[i] <= n}
    IN  {kl[i] : i \in {j \in ok : Cardinality({h \in ok : h < j}) < 8}}

\* C23: solveVigenere on normalized length n only solves key lengths L of its
\* input list with 2 <= L <= min(20, n / 3), at most the first 8 of them in
\* input order; each candidate has a key of exactly L letters A..Z and
\* plaintext[i] = (cipher[i] - key[i mod L]) mod 26; at most 8 candidates are
\* returned, in non-increasing combined score, and none when n < 6.
C23_VigenereCandidates ==
    pc = "vigenereDone" =>
        LET t == normalizeText(ciphertext)
            n == Len(t)
            r == vigenereResults
        IN  /\ Len(r) <= 8
            /\ n < 6 => r = <<>>
            /\ {Len(r[i].key) : i \in 1..Len(r)} = solvable(lastKeyLengths, n)
            /\ \A i \in 1..Len(r), j \in 1..Len(r) :
                  i # j => Len(r[i].key) # Len(r[j].key)
            /\ \A i \in 1..Len(r) :
                  /\ r[i].type = "vigenere"
                  /\ \A c \in 1..Len(r[i].key) : r[i].key[c] \in 65..90
                  /\ r[i].plaintext =
                         [k \in 1..n |->
                             movedBack(t[k],
                                 r[i].key[((k - 1) % Len(r[i].key)) + 1] - 65)]
            /\ \A i \in 1..(Len(r) - 1) : r[i].ngramScore >= r[i + 1].ngramScore

\* the 30-letter text with the key lengths 2..12: nine of them are at most
\* n / 3, the first eight are solved, and for length 2 the key BC is found
C23_Witness ==
    /\ pc = "vigenereDone"
    /\ ciphertext = TwoColumnText
    /\ lastKeyLengths = AllKeyLengths
    /\ {Len(vigenereResults[i].key) : i \in 1..Len(vigenereResults)} = 2..9
    /\ \E i \in 1..Len(vigenereResults) :
          /\ vigenereResults[i].key = <<66, 67>>
          /\ SubSeq(vigenereResults[i].plaintext, 1, 8)
                 = <<84, 84, 72, 73, 65, 79, 84, 78>>

(***************************************************************************)
(* C24.  solveVigenere adds 0.05 to the confidence of a candidate whose    *)
(* key length is one of the first three entries of the list it was given   *)
(* (lines 432-436); the worker gives it the detector's list only when the  *)
(* detector said vigenere (line 62) and the list 2..12 in every run        *)
(* (line 83).                                                              *)
(***************************************************************************)
\* the confidence of a Vigenere candidate exceeds the rescaled score
bumped(c) ==
    /\ c.type = "vigenere"
    /\ c.confidence > clampConfidence(c.ngramScore + 10000, 8, 0)

\* the solver candidates behind the results that the worker posts
reachedResults ==
    {u \in Range(uniqueResults) :
        \E i \in 1..Len(finalResults.items) : SameCandidate(u, finalResults.items[i])}

\* C24: when the run is over, every Vigenere candidate among the posted
\* results that carries the 0.05 bump has a key length among the first three
\* key lengths the detector proposed for the ciphertext
C24_BumpOnlyForDetectedLengths ==
    (pc = "done" /\ finalResults.tag = "list") =>
        \A u \in reachedResults :
            bumped(u) => Len(u.key) \in Range(Take(detection.keyLengths, 3))

(***************************************************************************)
(* C25.  Method 2 of solveMonoSubstitution (lines 515-539): the pattern    *)
(* mapping is a copy of the frequency mapping, its plaintext is scored     *)
(* again, and the candidate is pushed under if (score2 > score1).          *)
(***************************************************************************)
\* the score of the frequency mapping's plaintext (score1 at line 503)
monoScore1 == scoreText(applyMapping(fmapping, normalized), quadgrams)

\* the score of the pattern mapping's plaintext (score2 at line 527)
monoScore2 == scoreText(applyMapping(frequencyMapping(normalized), normalized), quadgrams)

\* the candidates of the returned list that carry the frequency mapping
withFrequencyMapping ==
    {i \in 1..Len(monoResults) : monoResults[i].mapping = fmapping}

\* C25: when solveMonoSubstitution has returned for a text of more than 10
\* letters and the pattern score is greater than or equal to the frequency
\* score, the list holds the pattern candidate next to the frequency
\* candidate
C25_PatternKeptWhenNotWorse ==
    (pc = "done" /\ Len(normalized) > 10 /\ monoScore2 >= monoScore1) =>
        Cardinality(withFrequencyMapping) >= 2

(***************************************************************************)
(* C26.  calculateCharacterDistribution (lines 171-201) sums                *)
(* (observed - expected)^2 / expected over the 26 letters, with             *)
(* expected = englishFreq[char] * textLen.                                  *)
(***************************************************************************)
\* the longest synthetic text looked for
MaxSyntheticLen == 1000

\* the count of every letter of t is its reference frequency times the length
perfectlyMatching(t) ==
    \A i \in 1..26 : 1000 * Count(t, 64 + i) = englishFreq[i] * Len(t)

\* letter counts of a text of n letters that matches englishFreq perfectly:
\* every englishFreq[char] * n is a whole number and the counts add up to n
syntheticCounts(n) ==
    /\ \A i \in 1..26 : (englishFreq[i] * n) % 1000 = 0
    /\ SumSeq([i \in 1..26 |-> (englishFreq[i] * n) \div 1000]) = n

\* C26: the chi-squared statistic of every text is non-negative, it is 0 for
\* a non-empty text whose letter counts are the reference frequencies times
\* its length, and there is a length for which such a text exists
C26_PerfectMatchScoresZero ==
    Detected =>
        /\ calculateCharacterDistribution(ciphertext) >= 0
        /\ (Len(normalized) > 0 /\ perfectlyMatching(normalized))
              => calculateCharacterDistribution(ciphertext) = 0
        /\ \E n \in 1..MaxSyntheticLen : syntheticCounts(n)

(***************************************************************************)
(* C27.  The generator of method 3 is seeded with                          *)
(* normalized.length + score1 * 1000 (line 548); next() keeps              *)
(* (seed * 1664525 + 1013904223) % 4294967296 and nextInt(max) returns     *)
(* Math.floor(next() * max) (lines 11-19); lines 555-556 draw i and j.     *)
(***************************************************************************)
\* the two indices the coming iteration draws, with the state after each draw
nextDraws ==
    LET n == Len(Keys(climbSt.bestMapping))
        s1 == rngNext(climbSt.rng)
        s2 == rngNext(s1)
    IN  [max |-> n, s1 |-> s1, s2 |-> s2, i |-> rngFloor(s1, n), j |-> rngFloor(s2, n)]

\* C27: in every iteration of the hill climbing loop the generator's state
\* after each step is an integer from 0 to 2^32 - 1 and both indices drawn
\* are at least 0 and below the number of entries of the mapping
C27_IndicesNameEntries ==
    (pc = "climb" /\ climbSt.iter < maxIterations) =>
        LET d == nextDraws
        IN  /\ ~d.s1.neg /\ d.s1.hi \in 0..65535 /\ d.s1.lo \in 0..65535
            /\ ~d.s2.neg /\ d.s2.hi \in 0..65535 /\ d.s2.lo \in 0..65535
            /\ 0 <= d.i /\ d.i < d.max
            /\ 0 <= d.j /\ d.j < d.max

(***************************************************************************)
(* C28.  analyzeCipher awaits its solvers one after the other (worker      *)
(* lines 44-87) and each solver awaits each scoreText call, so the         *)
(* scoreText calls of one run are the calls of SpecLoad of which each      *)
(* begins after all earlier ones have returned.                            *)
(***************************************************************************)
\* no call began while another was waiting: the calls of one analysis
SequentialRun ==
    \A j \in 1..Len(loaders) :
        loaders[j].during = {} /\ loaders[j].after = 1..(j - 1)

\* C28: in a run of scoreText calls made one after the other, every call that
\* scored against a table scored against the table of the run's first such
\* call; after a first load that failed and gave the empty table, no later
\* call scores against a table that was loaded
C28_OneTablePerRun ==
    SequentialRun =>
        \A i \in Returned, j \in Returned :
            (i < j /\ loaders[i].value.tag = "table" /\ loaders[j].value.tag = "table")
                => loaders[j].value.table = loaders[i].value.table

(***************************************************************************)
(* C29.  The deduplication loop of analyzeCipher (worker lines 86-97)      *)
(* pushes a result when its key is not yet in seenPlaintexts; the sort by  *)
(* confidence follows at lines 100-102.                                    *)
(***************************************************************************)
\* C29: once the candidates are pooled, every survivor of the deduplication
\* has a confidence at least that of every solver candidate that shares its
\* fingerprint
C29_SurvivorHasBestConfidence ==
    Pooled =>
        LET all == results \o caesarResults \o vigenereResults \o monoResults
        IN  \A i \in 1..Len(uniqueResults), k \in 1..Len(all) :
                fingerprint(all[k]) = fingerprint(uniqueResults[i])
                    => uniqueResults[i].confidence >= all[k].confidence

(***************************************************************************)
(* C30.  The messages of one ANALYZE request (worker lines 19-179):        *)
(* analyzeCipher posts the progress messages itself and returns the        *)
(* terminal message, which onmessage posts.  Every step of SpecWorker is   *)
(* the continuation of a settled promise, so the request is answered when  *)
(* no step leads back and a step is possible until the answer is posted.   *)
(***************************************************************************)
\* how far the request has come
stage(p) ==
    CASE p = "start" -> 0
      [] p = "solveDetected" -> 1
      [] p = "solveCaesar" -> 2
      [] p = "solveVigenere" -> 3
      [] p = "solveMono" -> 4
      [] p = "fetching" -> 5
      [] p = "settled" -> 6
      [] OTHER -> 7

\* a message that ends a request
terminal(m) ==
    \/ m.status = "completed" /\ m.progress = 100
    \/ m.status = "error" /\ m.progress = 0

\* the progress values of the messages before the terminal one
progressSteps == <<10, 30, 40, 60, 80, 90>>

\* analyzeCipher has returned and onmessage has posted what it returned
Answered == pc \in {"done", "failed"}

\* the request waits for a step that is possible: WorkerDetect at the start,
\* a solver's return or its rejection, one of the ways the fetch settles
\* (FetchRejects has no other guard), WorkerComplete
Awaiting == stage(pc) < 7

\* the messages posted so far are well formed: a message with the status
\* completed or error is terminal and the last one, the others have the
\* status detecting or solving and the progress values 10, 30, 40, 60, 80, 90
\* in this order, and an answered request has its terminal message
postedInOrder ==
    /\ \A i \in 1..Len(posted) :
          IF posted[i].status \in {"completed", "error"}
          THEN terminal(posted[i]) /\ i = Len(posted) /\ Answered
          ELSE /\ posted[i].status \in {"detecting", "solving"}
               /\ i <= Len(progressSteps)
               /\ posted[i].progress = progressSteps[i]
    /\ \A i \in 1..(Len(posted) - 1) :
          terminal(posted[i + 1]) \/ posted[i].progress <= posted[i + 1].progress
    /\ Answered => (posted # <<>> /\ terminal(posted[Len(posted)]))

\* C30: for an ANALYZE message the worker posts exactly one terminal message
\* (completed with progress 100 or error with progress 0), it is the last
\* message, every message before it has the status detecting or solving and
\* their progress values are 10, 30, 40, 60, 80, 90 in non-decreasing order;
\* until it is posted a step of the request is possible, and every step
\* takes the request further
C30_OneTerminalMessageLast ==
    /\ [](postedInOrder /\ (Answered \/ Awaiting))
    /\ [][stage(pc') > stage(pc)]_vars

\* both endings: a completed request after all six progress messages, and a
\* request that failed after the progress 80 (seen from its end)
C30_Witness ==
    /\ pc = "failed"
    /\ Len(posted) = 6
    /\ posted[5].progress = 80
    /\ posted[6].status = "error"

=============================================================================
